---- MODULE Spec2Model ----
(***************************************************************************)
(* jedi-mcp: the crawler (crawler.py), the storage layer (database.py),    *)
(* the content grouping (content_processor.py), the navigation extraction  *)
(* (navigation_extractor.py, ms_learn_extractor.py,                        *)
(* smart_navigation_extractor.py) and the search tools (mcp_server.py,     *)
(* vector_database.py) as state machines.                                  *)
(*                                                                         *)
(* The specifications share the module, one per component:                 *)
(*   SpecCrawl  crawl_pages with fetch_page_content and retry_with_backoff *)
(*   SpecDb     DatabaseManager: initialize_schema, store_content_group,   *)
(*              get_all_content_groups, get_content_group_by_name          *)
(*   SpecGroup  _fallback_grouping and process_content                     *)
(*   SpecNav    extract_navigation_links and its tiers                     *)
(*   SpecSearch searchDoc, loadDoc, listDoc and the accessors of           *)
(*              VectorDatabaseManager                                      *)
(*   SpecEmbed  EmbeddingGenerator and the embedding tables of             *)
(*              VectorDatabaseManager                                      *)
(*   SpecValidate  validate_project_name                                   *)
(*   SpecTools  create_mcp_server and the tools of the content groups      *)
(*   SpecDedup  _deduplicate_content_with_context                          *)
(*   SpecExpand, SpecExpandLive  _expand_all_tree_sections                 *)
(*   SpecGenerate  the storing loop of generate_mcp_server_async           *)
(*   SpecReview  _verify_and_filter_links                                  *)
(* The variables of the components a specification does not run keep       *)
(* their initial values.                                                   *)
(***************************************************************************)
EXTENDS Integers, Sequences, FiniteSets

VARIABLES
    \* ---- crawler.py
    max_retries,    \* CrawlConfig.max_retries
    links,          \* the links handed to crawl_pages (link ids, in order)
    cpc,            \* where crawl_pages is: "loop", "wrapper", "backoff",
                    \* "ratelimit", "done" (returned), "aborted" (raised)
    i,              \* number of links the for loop has taken so far
    attempt,        \* retry_with_backoff's loop variable for the current link
    pages,          \* crawl_pages' result list (the link each page came from)
    fetched,        \* per link taken: how fetch_with_retry (the wrapper) ended
    log,            \* the attempts and sleeps, in the order they happened
    \* ---- database.py
    db,             \* the SQLite file: schema flag and the three tables
    last,           \* the last DatabaseManager call: arguments and outcome
    \* ---- content_processor.py
    proc_pages,     \* the pages given to the grouping functions
    gpc,            \* "input", "fallback_done", "processed"
    response,       \* the grouping model's response to process_content
    groups_data,    \* the group dictionaries (_fallback_grouping's result)
    content_groups, \* process_content's result
    proc_raised,    \* the exception process_content raised, "none" if it returned
    \* ---- navigation_extractor.py
    nav_base,       \* base_url
    nav_html,       \* the page: its navigation dialect and anchors
    use_browser,    \* `use_browser and PLAYWRIGHT_AVAILABLE`
    npc,            \* "start", "smart", "html", "done" (returned), "raised"
    nav_tier,       \* the routine that produced the result
    nav_links,      \* the admitted links before the deduplication
    nav_result,     \* the list extract_navigation_links returned
    nav_raised,     \* the exception it raised, "none" if it returned
    nav_response,   \* the navigation model's response in the AI tier
    \* ---- mcp_server.py, vector_database.py
    vdb,            \* the database file: embedding schema flag and documents
    tool_call,      \* the last searchDoc / loadDoc / listDoc call and its response
    acc_call,       \* the last direct call of an embedding-aware accessor
    \* ---- embedding_generator.py, vector_database.py (storage)
    gen,            \* the EmbeddingGenerator: its config and whether the model is loaded
    edb,            \* the database file of the embedding store
    embedding,      \* the vector generate_embedding returned last
    emb_raised,     \* the exception the last storage call raised, "none" if it returned
    \* ---- cli.py (validate_project_name)
    name_arg,       \* the PROJECT_NAME argument, one character per element
    vpc,            \* "input", "validated"
    name_valid,     \* what validate_project_name returned
    \* ---- mcp_server.py (create_mcp_server)
    tool_db,        \* the database create_mcp_server reads: schema flag and the project's groups
    on_duplicate,   \* what FastMCP does with a second tool of the same name
    tpc,            \* "start", "serving" (create_mcp_server returned), "raised"
    tools,          \* the tools registered on the server, in registration order
    tool_result,    \* the last invocation of a group's tool
    \* ---- content_processor.py (_deduplicate_content_with_context)
    dd_pages,       \* the pages of a group handed to the deduplication
    dpc,            \* "input", "done"
    unique_pages,   \* the list _deduplicate_content_with_context returned
    \* ---- ms_learn_extractor.py (_expand_all_tree_sections)
    tree,           \* the tree items of the page: "hidden", "collapsed", "expanded"
    expanders,      \* the tree items that contain a .tree-expander
    epc,            \* "while", "for", "final_check", "final_for", "done"
    iteration,      \* the loop counter of the expansion passes
    collapsed_items,\* the list the last query_selector_all returned
    item_pos,            \* the position of the for loop in collapsed_items
    expanded_count, \* the clicks of the current pass
    verified,       \* some click of the current pass left its item with aria-expanded="true"
    final_clicked,  \* the items clicked by the alternative method, in order
    \* ---- cli.py (generate_mcp_server_async, step 4)
    run_groups,     \* the content groups process_content returned to the run
    run_stored,     \* how many of them the storing loop has passed
    run_result,     \* "running", "success", "failure" (GenerationResult.success)
    db_before,      \* the database when the run began to store
    \* ---- cli.py (_verify_and_filter_links)
    current_links,  \* the link list under review
    review_page,    \* the page of the table on display
    rpc,            \* "prompt", "returned"
    returned_links  \* the list _verify_and_filter_links returned

crawlVars == <<max_retries, links, cpc, i, attempt, pages, fetched, log>>
dbVars == <<db, last>>
groupVars == <<proc_pages, gpc, response, groups_data, content_groups, proc_raised>>
navVars == <<nav_base, nav_html, use_browser, npc, nav_tier, nav_links, nav_result,
             nav_raised, nav_response>>
srvVars == <<vdb, tool_call, acc_call>>
embedVars == <<gen, edb, embedding, emb_raised>>
validateVars == <<name_arg, vpc, name_valid>>
toolVars == <<tool_db, on_duplicate, tpc, tools, tool_result>>
dedupVars == <<dd_pages, dpc, unique_pages>>
expandVars == <<tree, expanders, epc, iteration, collapsed_items, item_pos, expanded_count, verified, final_clicked>>
generateVars == <<run_groups, run_stored, run_result, db_before>>
reviewVars == <<current_links, review_page, rpc, returned_links>>
vars == <<crawlVars, dbVars, groupVars, navVars, srvVars, embedVars, validateVars, toolVars, dedupVars, expandVars, generateVars, reviewVars>>

\* ------------------------------------------------------------------ bounds

MaxRetriesCap == 3
MaxLinks == 3
MaxGroupPages == 1
MaxStoredGroups == 2
MaxPages == 11
MaxModelPages == 2
MaxRespGroups == 2
MaxAnchors == 6
MaxAiLinks == 2
MaxDocs == 3
MaxNameLen == 3
MaxToolGroups == 2
MaxDedupPages == 2
MaxCodeBlocks == 11
MaxTreeNodes == 2
MaxRunGroups == 2
MaxReviewLinks == 21
MaxSelected == 2

\* ------------------------------------------------------------ helpers

Range(s) == {s[k] : k \in 1..Len(s)}

RECURSIVE SumSeq(_)
SumSeq(s) == IF s = <<>> THEN 0 ELSE s[1] + SumSeq(Tail(s))

\* ================================================================ crawler

\* What one `await func()` inside the wrapper can do: return the response
\* text, or raise one of the two exception classes the wrapper catches.
FetchOutcomes == {"ok", "RequestError", "HTTPStatusError"}

Event(ev, link, n, out) == [ev |-> ev, link |-> link, n |-> n, out |-> out]

\* crawler.py:33, with the `2 * attempt` slip
WaitTimeLinear(a) == 2 * a

\* crawler.py:33  wait_time = 2 ** attempt
WaitTime(a) == 2 ^ a

\* crawl_pages, the head of `for i, link in enumerate(links)`: take the next
\* link and enter fetch_page_content, or leave the loop and return pages.
crawl_pages_next ==
    /\ cpc = "loop"
    /\ IF i < Len(links)
         THEN /\ i' = i + 1
              /\ attempt' = 0
              /\ cpc' = "wrapper"
         ELSE /\ cpc' = "done"
              /\ UNCHANGED <<i, attempt>>
    /\ UNCHANGED <<max_retries, links, pages, fetched, log>>
    /\ UNCHANGED <<dbVars, groupVars, navVars, srvVars, embedVars, validateVars, toolVars, dedupVars, expandVars, generateVars, reviewVars>>

\* One turn of the wrapper's `for attempt in range(max_retries)` together
\* with what follows when the wrapper ends.
\*  - range exhausted (only possible on entry, when max_retries <= 0): the
\*    wrapper returns None; fetch_page_content hands None to
\*    extract_content_from_html, BeautifulSoup(None) raises TypeError, which
\*    neither fetch_page_content nor crawl_pages catches.
\*  - "ok": the wrapper returns the text, the page is appended, and the
\*    rate-limit sleep follows unless this was the last link.
\*  - an error on the last attempt is re-raised, logged by
\*    fetch_page_content, caught by crawl_pages, which continues.
\*  - an error on an earlier attempt leads to the backoff sleep.
wrapper_attempt ==
    /\ cpc = "wrapper"
    /\ IF attempt >= max_retries
         THEN /\ fetched' = Append(fetched, [kind |-> "return", val |-> "None"])
              /\ cpc' = "aborted"
              /\ UNCHANGED <<pages, log>>
         ELSE \E out \in FetchOutcomes :
              /\ log' = Append(log, Event("attempt", i, attempt, out))
              /\ IF out = "ok"
                   THEN /\ fetched' = Append(fetched, [kind |-> "return", val |-> "html"])
                        /\ pages' = Append(pages, links[i])
                        /\ cpc' = IF i < Len(links) THEN "ratelimit" ELSE "loop"
                   ELSE IF attempt = max_retries - 1
                          THEN /\ fetched' = Append(fetched, [kind |-> "raise", val |-> out])
                               /\ cpc' = "loop"
                               /\ UNCHANGED pages
                          ELSE /\ cpc' = "backoff"
                               /\ UNCHANGED <<pages, fetched>>
    /\ UNCHANGED <<max_retries, links, i, attempt>>
    /\ UNCHANGED <<dbVars, groupVars, navVars, srvVars, embedVars, validateVars, toolVars, dedupVars, expandVars, generateVars, reviewVars>>

\* await asyncio.sleep(wait_time) in the wrapper, then the next attempt.
wrapper_sleep ==
    /\ cpc = "backoff"
    /\ log' = Append(log, Event("backoff", i, WaitTime(attempt), "-"))
    /\ attempt' = attempt + 1
    /\ cpc' = "wrapper"
    /\ UNCHANGED <<max_retries, links, i, pages, fetched>>
    /\ UNCHANGED <<dbVars, groupVars, navVars, srvVars, embedVars, validateVars, toolVars, dedupVars, expandVars, generateVars, reviewVars>>

\* await asyncio.sleep(config.rate_limit_delay) in crawl_pages.
crawl_pages_rate_limit ==
    /\ cpc = "ratelimit"
    /\ log' = Append(log, Event("rate", i, 0, "-"))
    /\ cpc' = "loop"
    /\ UNCHANGED <<max_retries, links, i, attempt, pages, fetched>>
    /\ UNCHANGED <<dbVars, groupVars, navVars, srvVars, embedVars, validateVars, toolVars, dedupVars, expandVars, generateVars, reviewVars>>

\* =============================================================== database

ProjectNames == {"p1", "p2"}
GroupNames == {"g1", "g2"}
Summaries == {"s1", "s2"}
RootUrl == "https://docs"

\* PageContent as the pages table keeps it (code_blocks are not stored).
Page(u) == [url |-> u, title |-> "title", content |-> "content"]

RECURSIVE SeqsUpTo(_, _)
SeqsUpTo(S, n) ==
    IF n = 0 THEN {<<>>}
    ELSE LET shorter == SeqsUpTo(S, n - 1)
         IN shorter \cup {Append(s, x) : s \in shorter, x \in S}

\* The ContentGroup values handed to store_content_group.
GroupInputs ==
    [name : GroupNames, summary_markdown : Summaries,
     pages : SeqsUpTo({Page("u1")}, MaxGroupPages)]

NoGroup == [name |-> "", summary_markdown |-> "", pages |-> <<>>]

\* A database file on which no statement has run: no tables.
EmptyDb == [schema |-> FALSE, projects |-> <<>>, content_groups |-> <<>>, pages |-> <<>>]

ProjectRows(d, project_name) == {r \in Range(d.projects) : r.name = project_name}

ProjectId(d, project_name) == (CHOOSE r \in ProjectRows(d, project_name) : TRUE).id

GroupRows(d, project_id, name) ==
    {r \in Range(d.content_groups) : r.project_id = project_id /\ r.name = name}

\* database.py:97-126: the database after the SELECT and, for a new name,
\* the INSERT INTO projects (ids are AUTOINCREMENT and rows are never deleted).
_get_or_create_project(d, project_name, root_url) ==
    IF ProjectRows(d, project_name) # {}
      THEN d
      ELSE [d EXCEPT !.projects =
              Append(@, [id |-> Len(@) + 1, name |-> project_name, root_url |-> root_url])]

\* database.py:147-154  INSERT INTO content_groups
InsertGroup(d, project_id, group) ==
    [d EXCEPT !.content_groups =
       Append(@, [id |-> Len(@) + 1, project_id |-> project_id, name |-> group.name,
                  summary_markdown |-> group.summary_markdown])]

\* database.py:157-164  INSERT INTO pages, for the first m pages of the group
InsertPages(d, content_group_id, group_pages, m) ==
    [d EXCEPT !.pages =
       @ \o [k \in 1..m |-> [id |-> Len(d.pages) + k,
                             content_group_id |-> content_group_id,
                             page |-> group_pages[k]]]]

\* The statements of store_content_group, numbered as they run: 1 the SELECT
\* of the project, 2 the INSERT of a new project, 3 the INSERT of the group,
\* 3+k the INSERT of page k.  inj is the statement on which SQLite raises an
\* OperationalError (database locked, disk I/O), 0 for none.
\* Result: how the body of the `with` block ends and what it has written in
\* the open transaction by then.
store_content_group(d, project_name, group, root_url, inj) ==
    LET d1 == _get_or_create_project(d, project_name, root_url)
        project_id == ProjectId(d1, project_name)
        d2 == InsertGroup(d1, project_id, group)
        content_group_id == Len(d2.content_groups)
        n == Len(group.pages)
        Fail(exc, at, w) == [raised |-> exc, failed_at |-> at, work |-> w, id |-> 0]
    IN  IF ~d.schema \/ inj = 1 THEN Fail("OperationalError", 1, d)
        ELSE IF inj = 2 THEN Fail("OperationalError", 2, d)
        ELSE IF inj = 3 THEN Fail("OperationalError", 3, d1)
        ELSE IF GroupRows(d1, project_id, group.name) # {}
               THEN Fail("IntegrityError", 3, d1)    \* UNIQUE(project_id, name)
        ELSE IF inj > 3
               THEN Fail("OperationalError", inj,
                         InsertPages(d2, content_group_id, group.pages, inj - 4))
        ELSE [raised |-> "none", failed_at |-> 0,
              work |-> InsertPages(d2, content_group_id, group.pages, n),
              id |-> content_group_id]

\* database.py:27-39 with `conn.commit()` also on the exception path
_get_connection_always_commit(before, run) == run.work

\* database.py:27-39  _get_connection: commit when the body returns,
\* rollback and re-raise when it raises.
_get_connection(before, run) ==
    IF run.raised = "none" THEN run.work ELSE before

\* database.py:204-233: the pages of one group row, in rowid order
PagesOf(d, content_group_id) ==
    LET rows == SelectSeq(d.pages, LAMBDA r : r.content_group_id = content_group_id)
    IN  [k \in 1..Len(rows) |-> rows[k].page]

GroupOf(d, row) ==
    [name |-> row.name, summary_markdown |-> row.summary_markdown,
     pages |-> PagesOf(d, row.id)]

Returned(kind, value) == [raised |-> "none", ret |-> kind, result |-> value]
Raised(exc) == [raised |-> exc, ret |-> "raise", result |-> <<>>]

\* database.py:178-191 without `if not project_row: return []`
get_all_content_groups_no_project_check(d, project_name) ==
    IF ~d.schema THEN Raised("OperationalError")
    ELSE IF ProjectRows(d, project_name) = {} THEN Raised("TypeError")
    ELSE LET project_id == ProjectId(d, project_name)
             rows == SelectSeq(d.content_groups, LAMBDA r : r.project_id = project_id)
         IN  Returned("list", [k \in 1..Len(rows) |-> GroupOf(d, rows[k])])

\* database.py:168-235  get_all_content_groups
get_all_content_groups(d, project_name) ==
    IF ~d.schema THEN Raised("OperationalError")      \* no such table: projects
    ELSE IF ProjectRows(d, project_name) = {} THEN Returned("list", <<>>)
    ELSE LET project_id == ProjectId(d, project_name)
             rows == SelectSeq(d.content_groups, LAMBDA r : r.project_id = project_id)
         IN  Returned("list", [k \in 1..Len(rows) |-> GroupOf(d, rows[k])])

\* database.py:237-303  get_content_group_by_name; the result is <<>> for
\* None and <<group>> for a ContentGroup.
get_content_group_by_name(d, project_name, group_name) ==
    IF ~d.schema THEN Raised("OperationalError")      \* no such table: projects
    ELSE IF ProjectRows(d, project_name) = {} THEN Returned("None", <<>>)
    ELSE LET rows == GroupRows(d, ProjectId(d, project_name), group_name)
         IN  IF rows = {} THEN Returned("None", <<>>)
             ELSE Returned("group", <<GroupOf(d, CHOOSE r \in rows : TRUE)>>)

Call(op, project_name, group, out, failed_at) ==
    [op |-> op, project |-> project_name, group |-> group,
     raised |-> out.raised, ret |-> out.ret, result |-> out.result,
     failed_at |-> failed_at]

\* No call made yet.
NoCall == Call("none", "", NoGroup, Returned("None", <<>>), 0)

\* database.py:41-95: CREATE TABLE / INDEX IF NOT EXISTS
initialize_schema ==
    /\ db' = [db EXCEPT !.schema = TRUE]
    /\ last' = Call("initialize_schema", "", NoGroup, Returned("None", <<>>), 0)
    /\ UNCHANGED <<crawlVars, groupVars, navVars, srvVars, embedVars, validateVars, toolVars, dedupVars, expandVars, generateVars, reviewVars>>

StoreContentGroup ==
    \E project_name \in ProjectNames, group \in GroupInputs :
    \E inj \in 0..(3 + Len(group.pages)) :
        /\ Len(db.content_groups) < MaxStoredGroups
        /\ inj = 2 => ProjectRows(db, project_name) = {}
        /\ LET run == store_content_group(db, project_name, group, RootUrl, inj)
           IN  /\ db' = _get_connection(db, run)
               /\ last' = Call("store_content_group", project_name, group,
                               IF run.raised = "none"
                                 THEN Returned("id", <<run.id>>)
                                 ELSE Raised(run.raised),
                               run.failed_at)
        /\ UNCHANGED <<crawlVars, groupVars, navVars, srvVars, embedVars, validateVars, toolVars, dedupVars, expandVars, generateVars, reviewVars>>

GetAllContentGroups ==
    \E project_name \in ProjectNames :
        LET out == get_all_content_groups(db, project_name)
        IN  /\ db' = _get_connection(db, [raised |-> out.raised, work |-> db])
            /\ last' = Call("get_all_content_groups", project_name, NoGroup, out, 0)
            /\ UNCHANGED <<crawlVars, groupVars, navVars, srvVars, embedVars, validateVars, toolVars, dedupVars, expandVars, generateVars, reviewVars>>

GetContentGroupByName ==
    \E project_name \in ProjectNames, group_name \in GroupNames :
        LET out == get_content_group_by_name(db, project_name, group_name)
        IN  /\ db' = _get_connection(db, [raised |-> out.raised, work |-> db])
            /\ last' = Call("get_content_group_by_name", project_name,
                            [NoGroup EXCEPT !.name = group_name], out, 0)
            /\ UNCHANGED <<crawlVars, groupVars, navVars, srvVars, embedVars, validateVars, toolVars, dedupVars, expandVars, generateVars, reviewVars>>


\* ====================================================== content_processor

\* A page is its URL's path as `parsed.path.split('/')` gives it: the path
\* "/docs/api/" is <<"", "docs", "api", "">>, the empty path is <<>>.
SegNames == <<"s01", "s02", "s03", "s04", "s05", "s06", "s07",
              "s08", "s09", "s10", "s11", "s12", "s13", "s14">>

\* The paths the page at position k (1-based) is drawn from: under a segment
\* of its own, under the shared segment "docs", and, for the first pages,
\* the root page in several spellings and a segment called "general".
UrlChoices(k) ==
    {<<"", SegNames[k]>>, <<"", "docs", SegNames[k], "">>}
    \cup (IF k = 1 THEN {<<>>, <<"", "">>, <<"", "", "general", "x">>} ELSE {})
    \cup (IF k = 2 THEN {<<"">>, <<"", "general">>} ELSE {})

RECURSIVE PageLists(_)
PageLists(n) ==
    IF n = 0 THEN {<<>>}
    ELSE {Append(s, [path |-> u]) : s \in PageLists(n - 1), u \in UrlChoices(n)}

PageInputs == UNION {PageLists(n) : n \in 0..MaxPages}

\* content_processor.py:368  `if len(groups) > 10`
MaxFallbackGroups == 10

\* content_processor.py:351-355: the first non-empty path segment, or 'general'
GroupKey(page) ==
    LET path_parts == SelectSeq(page.path, LAMBDA p : p # "")
    IN  IF path_parts # <<>> THEN path_parts[1] ELSE "general"

\* content_processor.py:356 with `path_groups[group_key] = [i]`
AddToPathGroupsOverwrite(path_groups, group_key, idx) ==
    IF \E g \in 1..Len(path_groups) : path_groups[g].name = group_key
      THEN [g \in 1..Len(path_groups) |->
              IF path_groups[g].name = group_key
                THEN [path_groups[g] EXCEPT !.page_indices = <<idx>>]
                ELSE path_groups[g]]
      ELSE Append(path_groups, [name |-> group_key, page_indices |-> <<idx>>])

\* content_processor.py:356  path_groups[group_key].append(i); the dict is
\* kept as the sequence of its entries in insertion order.
AddToPathGroups(path_groups, group_key, idx) ==
    IF \E g \in 1..Len(path_groups) : path_groups[g].name = group_key
      THEN [g \in 1..Len(path_groups) |->
              IF path_groups[g].name = group_key
                THEN [path_groups[g] EXCEPT !.page_indices = Append(@, idx)]
                ELSE path_groups[g]]
      ELSE Append(path_groups, [name |-> group_key, page_indices |-> <<idx>>])

\* content_processor.py:348-365: the loop over enumerate(pages), for the
\* first n pages; page indices are 0-based as in the source.
RECURSIVE PathGroups(_, _)
PathGroups(pgs, n) ==
    IF n = 0 THEN <<>>
    ELSE AddToPathGroups(PathGroups(pgs, n - 1), GroupKey(pgs[n]), n - 1)

\* content_processor.py:368 with the threshold off by one
ConsolidateLate(groups, n) ==
    IF Len(groups) > MaxFallbackGroups + 1
      THEN <<[name |-> "documentation", page_indices |-> [k \in 1..n |-> k - 1]]>>
      ELSE groups

\* content_processor.py:367-374: more than 10 groups become one
Consolidate(groups, n) ==
    IF Len(groups) > MaxFallbackGroups
      THEN <<[name |-> "documentation", page_indices |-> [k \in 1..n |-> k - 1]]>>
      ELSE groups

\* content_processor.py:332-376
_fallback_grouping(pgs) == Consolidate(PathGroups(pgs, Len(pgs)), Len(pgs))

\* The page_indices lists the grouping model may put into one group of its
\* answer for n pages: empty, any single index from -1 to n (both ends are
\* out of range), any two indices in range (the same index twice included).
IdxChoices(n) ==
    {<<>>} \cup {<<a>> : a \in (-1)..n} \cup {<<a, b>> : a \in 0..(n - 1), b \in 0..(n - 1)}

ModelNames == <<"alpha", "beta", "gamma", "delta">>

RECURSIVE ArrayResponses(_, _)
ArrayResponses(n, m) ==
    IF m = 0 THEN {<<>>}
    ELSE {Append(r, [name |-> ModelNames[m], page_indices |-> ix]) :
             r \in ArrayResponses(n, m - 1), ix \in IdxChoices(n)}

\* Arrays json.loads accepts whose last element is not what the loop at
\* content_processor.py:117-123 expects: after the group objects in `groups`
\* comes a JSON string ("non_object_element"), or a group object whose
\* page_indices holds a JSON string ("non_integer_index").
MalformedKinds == {"non_object_element", "non_integer_index"}

\* What agent(grouping_prompt) can do for n pages: raise ("raise"), or return
\* a response whose str() is a text without '[' ... ']', a bracketed text
\* json.loads rejects, a JSON array of group objects, or a malformed array.
Responses(n) ==
    {[kind |-> "no_array", groups |-> <<>>], [kind |-> "bad_json", groups |-> <<>>]}
    \cup {[kind |-> "array", groups |-> r] :
             r \in UNION {ArrayResponses(n, m) : m \in 0..MaxRespGroups}}
    \cup {[kind |-> "raise", groups |-> <<>>]}
    \cup {[kind |-> k, groups |-> r] :
             k \in MalformedKinds,
             r \in UNION {ArrayResponses(n, m) : m \in 0..(MaxRespGroups - 1)}}

\* content_processor.py:99-112: the group dictionaries process_content uses.
\* Only a missing array and a json.loads failure reach _fallback_grouping; for
\* a malformed array these are the well-formed groups before the bad element.
ParseGrouping(pgs, resp) ==
    IF resp.kind \in {"array"} \cup MalformedKinds THEN resp.groups
    ELSE _fallback_grouping(pgs)

\* content_processor.py:97, 118-123: the exception that leaves process_content.
\* The model call is outside the try; the try at 100-112 catches only
\* JSONDecodeError and ValueError, and the loop over the parsed array is
\* outside it: `.get` on a str is an AttributeError, `0 <= i` with a str
\* index is a TypeError.
process_content_raises(pgs, resp) ==
    IF pgs = <<>> THEN "none"
    ELSE IF resp.kind = "raise" THEN "Exception"
    ELSE IF resp.kind = "non_object_element" THEN "AttributeError"
    ELSE IF resp.kind = "non_integer_index" THEN "TypeError"
    ELSE "none"

\* content_processor.py:123  [pages[i] for i in page_indices if 0 <= i < len(pages)]
\* (a page is named by its index in the input)
GroupPages(pgs, page_indices) ==
    SelectSeq(page_indices, LAMBDA ix : 0 <= ix /\ ix < Len(pgs))

\* content_processor.py:117-144: one ContentGroup per group dictionary that
\* has a valid page, in order.
RECURSIVE BuildGroups(_, _, _)
BuildGroups(pgs, gdata, n) ==
    IF n = 0 THEN <<>>
    ELSE LET built == BuildGroups(pgs, gdata, n - 1)
             group_pages == GroupPages(pgs, gdata[n].page_indices)
         IN  IF group_pages = <<>> THEN built
             ELSE Append(built, [name |-> gdata[n].name,
                                 summary_markdown |-> <<"summary", gdata[n].name>>,
                                 pages |-> group_pages])

\* content_processor.py:18-147: the list process_content returns (nothing is
\* returned, written <<>>, when process_content_raises names an exception)
process_content(pgs, resp) ==
    IF pgs = <<>> \/ process_content_raises(pgs, resp) # "none" THEN <<>>
    ELSE LET gdata == ParseGrouping(pgs, resp)
         IN  BuildGroups(pgs, gdata, Len(gdata))

NoResponse == [kind |-> "none", groups |-> <<>>]

\* _fallback_grouping(pages) called on its own, as the unit tests do
FallbackGrouping ==
    /\ gpc = "input"
    /\ groups_data' = _fallback_grouping(proc_pages)
    /\ gpc' = "fallback_done"
    /\ UNCHANGED <<proc_pages, response, content_groups, proc_raised>>
    /\ UNCHANGED <<crawlVars, dbVars, navVars, srvVars, embedVars, validateVars, toolVars, dedupVars, expandVars, generateVars, reviewVars>>

\* process_content(pages) with the model answering resp
ProcessContent ==
    /\ gpc = "input"
    /\ Len(proc_pages) <= MaxModelPages
    /\ \E resp \in Responses(Len(proc_pages)) :
        /\ response' = resp
        /\ content_groups' = process_content(proc_pages, resp)
        /\ proc_raised' = process_content_raises(proc_pages, resp)
    /\ gpc' = "processed"
    /\ UNCHANGED <<proc_pages, groups_data>>
    /\ UNCHANGED <<crawlVars, dbVars, navVars, srvVars, embedVars, validateVars, toolVars, dedupVars, expandVars, generateVars, reviewVars>>

\* ==================================================== navigation_extractor

\* A URL or an href, as urlparse splits it. The scheme keeps its colon
\* ("https:", "mailto:"); an href without a part has "" there. A URL string
\* is the concatenation of its parts, so two URLs are the same string exactly
\* when their parts are equal.
Url(scheme, netloc, path, frag) ==
    [scheme |-> scheme, netloc |-> netloc, path |-> path, frag |-> frag]

DocsBase == Url("https:", "docs.example.com", "/", "")
LearnBase == Url("https:", "learn.microsoft.com", "/", "")
BaseUrls == {DocsBase, LearnBase}

\* The hrefs a page (or the navigation model's answer) can carry: relative
\* and absolute spellings of one page, another page, another site, a pure
\* anchor, the empty href, an auth page in capitals, and two schemes without
\* a network location.
Hrefs ==
    {Url("", "", "/intro", ""), Url("https:", "docs.example.com", "/intro", ""),
     Url("", "", "/guide", ""), Url("https:", "other.example.org", "/x", ""),
     Url("", "", "", "top"), Url("", "", "", ""),
     Url("", "", "/Login", ""), Url("mailto:", "", "a@b", ""),
     Url("data:", "", "x", "")}

\* urllib.parse.urljoin(base_url, href) for a base with scheme and netloc and
\* hrefs whose paths are absolute: the empty href is the base, an href with
\* another scheme is taken as it is, a network location replaces the base's,
\* a path replaces the base's path, a lone fragment is put on the base.
urljoin(base_url, href) ==
    IF href = Url("", "", "", "") THEN base_url
    ELSE IF href.scheme # "" /\ href.scheme # base_url.scheme THEN href
    ELSE IF href.netloc # "" THEN Url(base_url.scheme, href.netloc, href.path, href.frag)
    ELSE IF href.path = "" THEN Url(base_url.scheme, base_url.netloc, base_url.path, href.frag)
    ELSE Url(base_url.scheme, base_url.netloc, href.path, href.frag)

\* href.startswith('#')
StartsWithHash(href) ==
    href.scheme = "" /\ href.netloc = "" /\ href.path = "" /\ href.frag # ""

\* str.lower() on the parts used here
Lower(part) == IF part = "/Login" THEN "/login" ELSE part

\* navigation_extractor.py:330-336 and 452-458
DenyPatterns ==
    {"twitter.com", "facebook.com", "linkedin.com", "github.com",
     "discord.com", "slack.com", "youtube.com",
     "/login", "/signup", "/register", "/auth",
     "/search", "?search=", "/download",
     "mailto:", "tel:", "javascript:"}

\* any(pattern in url_lower for pattern in [...]): a pattern occurs in a URL
\* of this model exactly when it is one of the URL's parts in lower case.
MatchesDenyPattern(absolute_url) ==
    \E pattern \in DenyPatterns :
        pattern \in {Lower(absolute_url.scheme), Lower(absolute_url.netloc),
                     Lower(absolute_url.path)}

DocumentationLink(url, title) == [url |-> url, title |-> title]

\* An anchor tag: its href and its text (title). The k-th anchor of a page
\* has the text TitleNames[k], so that two links to one URL differ.
TitleNames == <<"t1", "t2", "t3", "t4", "t5", "t6", "t7", "t8">>
PathNames == <<"/p1", "/p2", "/p3", "/p4", "/p5", "/p6", "/p7", "/p8">>

Anchor(href, title) == [href |-> href, title |-> title]

\* The anchors position k (1-based) of a navigation is drawn from: any href
\* and an anchor without text in the first place, a second spelling of the
\* first page and links that are dropped in the second, a repeated link in
\* the third, and a link to a page of its own everywhere.
AnchorChoices(k) ==
    {Anchor(Url("", "", PathNames[k], ""), TitleNames[k])}
    \cup (IF k = 1 THEN {Anchor(h, TitleNames[k]) : h \in Hrefs}
                         \cup {Anchor(Url("", "", "/intro", ""), "")}
          ELSE {})
    \cup (IF k = 2 THEN {Anchor(Url("https:", "docs.example.com", "/intro", ""), TitleNames[k]),
                         Anchor(Url("data:", "", "x", ""), TitleNames[k]),
                         Anchor(Url("https:", "other.example.org", "/x", ""), TitleNames[k])}
          ELSE {})
    \cup (IF k = 3 THEN {Anchor(Url("", "", "/intro", ""), TitleNames[k])} ELSE {})

RECURSIVE AnchorLists(_)
AnchorLists(n) ==
    IF n = 0 THEN {<<>>}
    ELSE {Append(s, a) : s \in AnchorLists(n - 1), a \in AnchorChoices(n)}

\* What the page has around its navigation anchors: a Docusaurus sidebar, a
\* Material for MkDocs sidebar, another sidebar container, the Microsoft
\* Learn table-of-contents tree, or none of them.
Dialects == {"docusaurus", "material", "generic", "ms_tree", "none"}

HtmlInputs ==
    {[dialect |-> d, anchors |-> a] :
        d \in Dialects, a \in UNION {AnchorLists(n) : n \in 0..MaxAnchors}}

\* navigation_extractor.py:107, 122  `len(links) >= 5`
MinSidebarLinks == 5

\* navigation_extractor.py:91-126 without `if len(links) >= 5`
_find_sidebar_any_size(html) ==
    IF html.dialect \in {"docusaurus", "material", "generic"}
    THEN <<html>> ELSE <<>>

\* navigation_extractor.py:91-126: the sidebar element, <<>> for None
_find_sidebar(html) ==
    IF html.dialect \in {"docusaurus", "material", "generic"}
       /\ Len(html.anchors) >= MinSidebarLinks
    THEN <<html>> ELSE <<>>

\* navigation_extractor.py:311-343: <<>> for None, <<link>> for a link
_create_doc_link(link_tag, base_url) ==
    LET absolute_url == urljoin(base_url, link_tag.href)
        link_domain == absolute_url.netloc
    IN  IF link_tag.href = Url("", "", "", "") \/ link_tag.title = ""
           \/ StartsWithHash(link_tag.href)
        THEN <<>>
        ELSE IF link_domain # "" /\ link_domain # base_url.netloc THEN <<>>
        ELSE IF MatchesDenyPattern(absolute_url) THEN <<>>
        ELSE <<DocumentationLink(absolute_url, link_tag.title)>>

\* navigation_extractor.py:178-308: the dialect walkers. Each calls
\* _create_doc_link for the anchors it visits, in document order, and keeps
\* the links it gets; the anchors of the model are the visited ones.
RECURSIVE WalkSidebar(_, _, _)
WalkSidebar(anchors, base_url, n) ==
    IF n = 0 THEN <<>>
    ELSE WalkSidebar(anchors, base_url, n - 1) \o _create_doc_link(anchors[n], base_url)

\* navigation_extractor.py:143-149 (also 469-475, ms_learn_extractor.py:270-276):
\* a variant that only compares a link with the one kept just before it
RECURSIVE RemoveDuplicatesAdjacent(_, _)
RemoveDuplicatesAdjacent(link_list, n) ==
    IF n = 0 THEN <<>>
    ELSE LET unique_links == RemoveDuplicatesAdjacent(link_list, n - 1)
         IN  IF unique_links # <<>> /\ unique_links[Len(unique_links)].url = link_list[n].url
             THEN unique_links
             ELSE Append(unique_links, link_list[n])

\* navigation_extractor.py:143-149 (also 469-475, ms_learn_extractor.py:270-276):
\* the seen_urls loop over the first n link_list
RECURSIVE RemoveDuplicates(_, _)
RemoveDuplicates(link_list, n) ==
    IF n = 0 THEN <<>>
    ELSE LET unique_links == RemoveDuplicates(link_list, n - 1)
             seen_urls == {unique_links[k].url : k \in 1..Len(unique_links)}
         IN  IF link_list[n].url \in seen_urls THEN unique_links
             ELSE Append(unique_links, link_list[n])

\* ms_learn_extractor.py:173-196 and 234-268: one tree anchor in the tree
\* walk (first pass) and in the find_all loop (second pass)
TreeItemLink(link, base_url) ==
    LET absolute_url == urljoin(base_url, link.href)
        link_domain == absolute_url.netloc
    IN  IF link.href = Url("", "", "", "") \/ link.title = "" \/ StartsWithHash(link.href)
        THEN <<>>
        ELSE IF link_domain # "" /\ link_domain # base_url.netloc THEN <<>>
        ELSE <<DocumentationLink(absolute_url, link.title)>>

RECURSIVE WalkTree(_, _, _)
WalkTree(anchors, base_url, n) ==
    IF n = 0 THEN <<>>
    ELSE WalkTree(anchors, base_url, n - 1) \o TreeItemLink(anchors[n], base_url)

\* ms_learn_extractor.py:234-268: the second pass skips a URL already listed
RECURSIVE DirectTreeLinks(_, _, _, _)
DirectTreeLinks(tree_links, anchors, base_url, n) ==
    IF n = 0 THEN tree_links
    ELSE LET so_far == DirectTreeLinks(tree_links, anchors, base_url, n - 1)
             found == TreeItemLink(anchors[n], base_url)
         IN  IF found = <<>> \/ found[1].url \in {so_far[k].url : k \in 1..Len(so_far)}
             THEN so_far
             ELSE so_far \o found

\* ms_learn_extractor.py:149-268: the links before the final deduplication
_extract_links_from_expanded_tree(html, base_url) ==
    IF html.dialect # "ms_tree" THEN <<>>
    ELSE DirectTreeLinks(WalkTree(html.anchors, base_url, Len(html.anchors)),
                         html.anchors, base_url, Len(html.anchors))

\* navigation_extractor.py:166-169
_is_microsoft_learn_url(url) == url.netloc = "learn.microsoft.com"

\* The link objects of the navigation model's JSON array: position k is
\* drawn from any href with a title, a link without title, or, in the second
\* place, a second spelling of the first page.
LinkDataChoices(k) ==
    {Anchor(Url("", "", PathNames[k], ""), TitleNames[k])}
    \cup (IF k = 1 THEN {Anchor(h, TitleNames[k]) : h \in Hrefs}
                         \cup {Anchor(Url("", "", "/intro", ""), "")}
          ELSE {})
    \cup (IF k = 2 THEN {Anchor(Url("https:", "docs.example.com", "/intro", ""), TitleNames[k])}
          ELSE {})

RECURSIVE LinkDataLists(_)
LinkDataLists(n) ==
    IF n = 0 THEN {<<>>}
    ELSE {Append(s, a) : s \in LinkDataLists(n - 1), a \in LinkDataChoices(n)}

\* What the AI tier can meet: create_navigation_model() raises, agent(prompt)
\* raises, or the response text has no '[' ... ']', has one json.loads
\* rejects, is a JSON array of link objects, or is an array whose last
\* element, after the link objects in `links`, is a JSON string.
AiResponses ==
    {[kind |-> k, links |-> <<>>] : k \in {"raise_model", "raise_call", "no_array", "bad_json"}}
    \cup {[kind |-> "array", links |-> l] :
             l \in UNION {LinkDataLists(n) : n \in 0..MaxAiLinks}}
    \cup {[kind |-> "non_object_element", links |-> l] :
             l \in UNION {LinkDataLists(n) : n \in 0..(MaxAiLinks - 1)}}

NoAiResponse == [kind |-> "none", links |-> <<>>]

\* navigation_extractor.py:480-539: the dictionaries built from the anchors
\* of the page's navigation elements (url is the raw href)
_fallback_link_extraction(html) ==
    SelectSeq(html.anchors, LAMBDA a : a.title # "" /\ ~StartsWithHash(a.href))

\* navigation_extractor.py:437-467: one element of links_data
LinkFromData(link_data, base_url) ==
    LET absolute_url == urljoin(base_url, link_data.href)
        link_domain == absolute_url.netloc
    IN  IF link_data.href = Url("", "", "", "") THEN <<>>
        ELSE IF link_domain # "" /\ link_domain # base_url.netloc THEN <<>>
        ELSE IF MatchesDenyPattern(absolute_url) THEN <<>>
        ELSE <<DocumentationLink(absolute_url, link_data.title)>>

RECURSIVE FilterLinksData(_, _, _)
FilterLinksData(links_data, base_url, n) ==
    IF n = 0 THEN <<>>
    ELSE FilterLinksData(links_data, base_url, n - 1) \o LinkFromData(links_data[n], base_url)

\* navigation_extractor.py:346-477: how _extract_with_ai ends (the exception
\* it raises, "none" if it returns) and documentation_links before the
\* deduplication. Model construction (359) and the model call (414) are
\* outside the try; the try at 418-431 catches JSONDecodeError and
\* ValueError; `.get` on an element that is a str is an AttributeError.
_extract_with_ai(html, base_url, resp) ==
    IF resp.kind \in {"raise_model", "raise_call"}
    THEN [raised |-> "Exception", links |-> <<>>]
    ELSE LET links_data == IF resp.kind = "bad_json" THEN _fallback_link_extraction(html)
                           ELSE resp.links
             documentation_links == FilterLinksData(links_data, base_url, Len(links_data))
         IN  IF resp.kind = "non_object_element"
             THEN [raised |-> "AttributeError", links |-> <<>>]
             ELSE [raised |-> "none", links |-> documentation_links]

\* extract_navigation_links returns: nav_links are the admitted candidates in
\* the order the routine `tier` produced them, the result is deduplicated.
NavReturn(tier, documentation_links) ==
    /\ npc' = "done"
    /\ nav_tier' = tier
    /\ nav_links' = documentation_links
    /\ nav_result' = RemoveDuplicates(documentation_links, Len(documentation_links))
    /\ nav_raised' = "none"

\* navigation_extractor.py:55-64 with ms_learn_extractor.py:22-70: the
\* browser tier on a Microsoft Learn URL. Playwright failing and the tree
\* selector timing out raise, which _extract_with_browser catches to go on
\* with extract_navigation_smart.
ExtractMicrosoftLearn ==
    /\ npc = "start"
    /\ use_browser
    /\ _is_microsoft_learn_url(nav_base)
    /\ \E rendered \in BOOLEAN :
        IF rendered /\ nav_html.dialect = "ms_tree"
        THEN /\ NavReturn("ms_learn", _extract_links_from_expanded_tree(nav_html, nav_base))
             /\ UNCHANGED nav_response
        ELSE /\ npc' = "smart"
             /\ UNCHANGED <<nav_tier, nav_links, nav_result, nav_raised, nav_response>>
    /\ UNCHANGED <<nav_base, nav_html, use_browser>>
    /\ UNCHANGED <<crawlVars, dbVars, groupVars, srvVars, embedVars, validateVars, toolVars, dedupVars, expandVars, generateVars, reviewVars>>

\* smart_navigation_extractor.py:47-78 called from navigation_extractor.py:66-67:
\* an exception of fetch_rendered_html is caught at navigation_extractor.py:47
\* and the HTML tier follows; without a sidebar the result is [].
ExtractNavigationSmart ==
    /\ \/ npc = "start" /\ use_browser /\ ~_is_microsoft_learn_url(nav_base)
       \/ npc = "smart"
    /\ \E rendered \in BOOLEAN :
        IF ~rendered
        THEN /\ npc' = "html"
             /\ UNCHANGED <<nav_tier, nav_links, nav_result, nav_raised>>
        ELSE LET sidebar == _find_sidebar(nav_html)
             IN  IF sidebar = <<>> THEN NavReturn("smart_no_sidebar", <<>>)
                 ELSE NavReturn(sidebar[1].dialect,
                                WalkSidebar(sidebar[1].anchors, nav_base, Len(sidebar[1].anchors)))
    /\ UNCHANGED <<nav_base, nav_html, use_browser, nav_response>>
    /\ UNCHANGED <<crawlVars, dbVars, groupVars, srvVars, embedVars, validateVars, toolVars, dedupVars, expandVars, generateVars, reviewVars>>

\* navigation_extractor.py:52 and 70-88: _extract_from_html_smart, which
\* hands a page without a sidebar to _extract_with_ai. Nothing around the
\* two calls catches an exception.
ExtractFromHtmlSmart ==
    /\ \/ npc = "start" /\ ~use_browser
       \/ npc = "html"
    /\ LET sidebar == _find_sidebar(nav_html)
       IN  IF sidebar # <<>>
           THEN /\ NavReturn(sidebar[1].dialect,
                             WalkSidebar(sidebar[1].anchors, nav_base, Len(sidebar[1].anchors)))
                /\ UNCHANGED nav_response
           ELSE \E resp \in AiResponses :
                  LET run == _extract_with_ai(nav_html, nav_base, resp)
                  IN  /\ nav_response' = resp
                      /\ IF run.raised = "none" THEN NavReturn("ai", run.links)
                         ELSE /\ npc' = "raised"
                              /\ nav_raised' = run.raised
                              /\ nav_tier' = "ai"
                              /\ UNCHANGED <<nav_links, nav_result>>
    /\ UNCHANGED <<nav_base, nav_html, use_browser>>
    /\ UNCHANGED <<crawlVars, dbVars, groupVars, srvVars, embedVars, validateVars, toolVars, dedupVars, expandVars, generateVars, reviewVars>>

\* ============================================ mcp_server / vector_database

\* Text that is searched or stripped (queries, slugs, titles, summaries) is a
\* sequence of one-character strings: "d1" is <<"d", "1">>.
Min(a, b) == IF a <= b THEN a ELSE b
Max(a, b) == IF a >= b THEN a ELSE b

\* str.strip(): leading and trailing blanks removed
RECURSIVE strip(_)
strip(s) ==
    IF s = <<>> THEN s
    ELSE IF s[1] = " " THEN strip(Tail(s))
    ELSE IF s[Len(s)] = " " THEN strip(SubSeq(s, 1, Len(s) - 1))
    ELSE s

\* str.lower() and SQL LOWER() on the characters used here
lower(s) == [k \in 1..Len(s) |-> IF s[k] = "T" THEN "t" ELSE s[k]]

\* SQL `text LIKE 'pattern%'`
LikePrefix(text, pattern) ==
    Len(pattern) <= Len(text) /\ SubSeq(text, 1, Len(pattern)) = pattern

\* SQL `text LIKE '%pattern%'`
LikeContains(text, pattern) ==
    \E k \in 1..(Len(text) - Len(pattern) + 1) :
        SubSeq(text, k, k + Len(pattern) - 1) = pattern

\* mcp_server.py:259, 373  `not query or not query.strip()`, without the strip
IsBlankUnstripped(s) == s = <<>>

\* mcp_server.py:259, 373  `not query or not query.strip()`
IsBlank(s) == s = <<>> \/ strip(s) = <<>>

\* mcp_server.py:266, 284, 595 and vector_database.py:521. Similarities are
\* in hundredths: 0.1 is 10, 0.5 is 50.
MaxLimit == 20
SimilarityThreshold == 10
KeywordScore == 50
SlugSuggestions == 5

Digits == <<"1", "2", "3", "4", "5">>

\* One row of document_embeddings with its rows of section_embeddings. `sim`
\* is the cosine similarity of its embedding with the embedding of the
\* query (what _normalize_vector and _cosine_similarity compute).
Document(k, sim, category, summary_text, sections) ==
    [slug |-> <<"d", Digits[k]>>, title |-> <<"T", Digits[k]>>, category |-> category,
     summary_text |-> summary_text, sim |-> sim, sections |-> sections]

SimChoices == {5, 50, 90}
SummaryChoices == {<<"x">>, <<"a", "q", "x">>}

\* The documents the k-th stored row is drawn from; rows are in the order
\* of created_at.
DocChoices(k) ==
    {Document(k, sim, "c1", text, <<>>) : sim \in SimChoices, text \in SummaryChoices}
    \cup (IF k = 1
          THEN {Document(k, sim, category, text, <<[section_id |-> <<"d", "1", "s">>, sim |-> 50]>>) :
                    sim \in SimChoices, category \in {"c1", "c2"}, text \in SummaryChoices}
               \cup {Document(k, sim, "c2", text, <<>>) :
                    sim \in SimChoices, text \in SummaryChoices}
          ELSE {})

RECURSIVE DocLists(_)
DocLists(n) ==
    IF n = 0 THEN {<<>>}
    ELSE {Append(s, d) : s \in DocLists(n - 1), d \in DocChoices(n)}

\* The database file a VectorDatabaseManager is opened on: one written with
\* the embedding columns and tables (initialize_vector_schema), or a legacy
\* one that has the base tables only.
VectorDbs ==
    {[vec_schema |-> TRUE, docs |-> d] : d \in UNION {DocLists(n) : n \in 0..MaxDocs}}
    \cup {[vec_schema |-> FALSE, docs |-> <<>>]}

LegacyDb == [vec_schema |-> FALSE, docs |-> <<>>]

\* vector_database.py:368, 580, 587  ORDER BY de.created_at DESC
OrderByCreatedDesc(rows) == [k \in 1..Len(rows) |-> rows[Len(rows) + 1 - k]]

\* SQL LIMIT n and list[:n]
Take(s, n) == SubSeq(s, 1, Min(n, Len(s)))

\* vector_database.py:344-354: the optional category filter
WhereCategory(rows, category) ==
    SelectSeq(rows, LAMBDA d : category = "" \/ d.category = category)

\* vector_database.py:409, 454: list.sort(key=relevance_score, reverse=True),
\* a stable sort
InsertByScore(sorted, r) ==
    LET n == Cardinality({k \in 1..Len(sorted) : sorted[k].relevance_score >= r.relevance_score})
    IN  SubSeq(sorted, 1, n) \o <<r>> \o SubSeq(sorted, n + 1, Len(sorted))

RECURSIVE SortByScore(_, _)
SortByScore(results, n) ==
    IF n = 0 THEN <<>> ELSE InsertByScore(SortByScore(results, n - 1), results[n])

\* vector_database.py:412-454
_get_section_matches(doc, threshold) ==
    LET found == SelectSeq(doc.sections, LAMBDA s : s.sim >= threshold)
        matches == [k \in 1..Len(found) |->
                       [section_id |-> found[k].section_id, relevance_score |-> found[k].sim]]
    IN  SortByScore(matches, Len(matches))

SearchResult(doc, relevance_score, section_matches) ==
    [slug |-> doc.slug, title |-> doc.title, category |-> doc.category,
     relevance_score |-> relevance_score, section_matches |-> section_matches]

\* vector_database.py:316-410. The SELECT reads the `limit * 2` newest rows
\* (line 372); only these are scored.
search_similar_documents(v, category, limit, similarity_threshold) ==
    IF ~v.vec_schema THEN Raised("OperationalError")
    ELSE LET rows == Take(OrderByCreatedDesc(WhereCategory(v.docs, category)), limit * 2)
             hits == SelectSeq(rows, LAMBDA d : d.sim >= similarity_threshold)
             results == [k \in 1..Len(hits) |->
                            SearchResult(hits[k], hits[k].sim,
                                         _get_section_matches(hits[k], similarity_threshold))]
         IN  Returned("list", Take(SortByScore(results, Len(results)), limit))

\* vector_database.py:456-519
get_document_by_slug(v, slug) ==
    IF ~v.vec_schema THEN Raised("OperationalError")
    ELSE LET rows == SelectSeq(v.docs, LAMBDA d : d.slug = slug)
         IN  IF rows = <<>> THEN Returned("None", <<>>)
             ELSE Returned("DocumentSummary", <<rows[1]>>)

\* vector_database.py:544-550: the CASE of the ORDER BY
SlugRank(d, slug_lower) ==
    IF lower(d.slug) = slug_lower THEN 1
    ELSE IF LikePrefix(lower(d.slug), slug_lower) THEN 2
    ELSE IF LikeContains(lower(d.title), slug_lower) THEN 3
    ELSE 4

\* vector_database.py:521-557 (rows of one rank come in the order stored)
get_similar_slugs(v, slug, limit) ==
    IF ~v.vec_schema THEN Raised("OperationalError")
    ELSE LET slug_lower == lower(slug)
             rows == SelectSeq(v.docs, LAMBDA d : \/ LikeContains(lower(d.slug), slug_lower)
                                                   \/ LikeContains(lower(d.title), slug_lower))
             ranked == SelectSeq(rows, LAMBDA d : SlugRank(d, slug_lower) = 1)
                       \o SelectSeq(rows, LAMBDA d : SlugRank(d, slug_lower) = 2)
                       \o SelectSeq(rows, LAMBDA d : SlugRank(d, slug_lower) = 3)
                       \o SelectSeq(rows, LAMBDA d : SlugRank(d, slug_lower) = 4)
             taken == Take(ranked, limit)
         IN  Returned("list", [k \in 1..Len(taken) |-> taken[k].slug])

\* vector_database.py:559-611: "no such table: document_embeddings" is caught
list_all_documents(v, project_name) ==
    IF ~v.vec_schema THEN Returned("list", <<>>)
    ELSE Returned("list", OrderByCreatedDesc(v.docs))

\* vector_database.py:168-220: "no such column: embedding_model" is caught.
\* Project "p1" has an embedding model stored, any other project has none.
get_project_embedding_config(v, project_name) ==
    IF ~v.vec_schema THEN Returned("None", <<>>)
    ELSE IF project_name = "p1" THEN Returned("EmbeddingConfig", <<"all-MiniLM-L6-v2">>)
    ELSE Returned("None", <<>>)

\* mcp_server.py:550-567: a row matches when its title or summary contains
\* one of query.lower().split(); the queries here have one term at most.
MatchesKeywords(d, query) ==
    LET term == lower(strip(query))
    IN  term = <<>> \/ LikeContains(lower(d.title), term) \/ LikeContains(lower(d.summary_text), term)

\* mcp_server.py:524-604: every exception ends in []
_perform_keyword_search(v, query, category, limit) ==
    IF ~v.vec_schema THEN <<>>
    ELSE LET rows == Take(OrderByCreatedDesc(
                              SelectSeq(WhereCategory(v.docs, category),
                                        LAMBDA d : MatchesKeywords(d, query))), limit)
         IN  [k \in 1..Len(rows) |-> SearchResult(rows[k], KeywordScore, <<>>)]

\* What a tool returns, with what it did on the way: whether
\* generate_embedding was called, whether the database was opened, how the
\* semantic search ended ("not_run", "raised", "returned") and with which
\* list, and whether _perform_keyword_search was called.
ToolResponse(error, results, suggestions, embedded, db_accessed, semantic, semantic_results, keyword_ran) ==
    [raised |-> "none", error |-> error, results |-> results, suggestions |-> suggestions,
     embedded |-> embedded, db_accessed |-> db_accessed, semantic |-> semantic,
     semantic_results |-> semantic_results, keyword_ran |-> keyword_ran]

\* mcp_server.py:341-347, 420-425, 516-521  `except Exception`, re-raising
except_Exception_reraise(run, error_msg) == run

\* mcp_server.py:341-347, 420-425, 516-521  `except Exception`: an exception
\* of the tool's body becomes an error object
except_Exception(run, error_msg) ==
    IF run.raised = "none" THEN run
    ELSE [run EXCEPT !.raised = "none", !.error = error_msg, !.results = <<>>]

\* mcp_server.py:316  `if not results`, taken as always true
NeedsKeywordSearchAlways(results) == TRUE

\* mcp_server.py:316  `if not results`
NeedsKeywordSearch(results) == results = <<>>

\* mcp_server.py:256-339: the body of search_documents. generator is "none"
\* (no embedding generator), "ok", or "raise" (generate_embedding raises);
\* the try at 274-313 catches what the semantic search raises.
search_documents_body(v, query, category, limit, generator) ==
    IF IsBlank(query)
    THEN ToolResponse("Query cannot be empty", <<>>, <<>>, FALSE, FALSE, "not_run", <<>>, FALSE)
    ELSE LET clamped == Min(Max(1, limit), MaxLimit)
             run == IF generator = "ok"
                    THEN search_similar_documents(v, category, clamped, SimilarityThreshold)
                    ELSE Raised("Exception")
             semantic == IF generator = "none" THEN "not_run"
                         ELSE IF run.raised # "none" THEN "raised"
                         ELSE "returned"
             search_results == IF semantic = "returned" THEN run.result ELSE <<>>
             results == [k \in 1..Len(search_results) |->
                            [search_results[k] EXCEPT
                                !.section_matches = Take(search_results[k].section_matches, 3)]]
             keyword_ran == NeedsKeywordSearch(results)
             final == IF keyword_ran THEN _perform_keyword_search(v, query, category, clamped)
                      ELSE results
         IN  ToolResponse("", final, <<>>, generator # "none",
                          generator = "ok" \/ keyword_ran, semantic, search_results, keyword_ran)

\* mcp_server.py:237-347
search_documents(v, query, category, limit, generator) ==
    except_Exception(search_documents_body(v, query, category, limit, generator), "Search failed")

\* mcp_server.py:384-388
NotFoundSuggestions ==
    <<<<"Check the slug spelling">>,
      <<"Use searchDoc to find available documents">>,
      <<"Use listDoc to browse all available documents">>>>

\* mcp_server.py:370-418: the body of load_document; an exception of
\* get_document_by_slug leaves it
load_document_body(v, slug) ==
    IF IsBlank(slug)
    THEN ToolResponse("Document slug cannot be empty", <<>>, <<>>, FALSE, FALSE, "not_run", <<>>, FALSE)
    ELSE LET document == get_document_by_slug(v, strip(slug))
         IN  IF document.raised # "none"
             THEN [ToolResponse("", <<>>, <<>>, FALSE, TRUE, "not_run", <<>>, FALSE)
                      EXCEPT !.raised = document.raised]
             ELSE IF document.result = <<>>
             THEN ToolResponse("not found", <<>>, NotFoundSuggestions, FALSE, TRUE, "not_run", <<>>, FALSE)
             ELSE ToolResponse("", document.result, <<>>, FALSE, TRUE, "not_run", <<>>, FALSE)

\* mcp_server.py:353-425
load_document(v, slug) ==
    except_Exception(load_document_body(v, slug), "Failed to load document")

\* mcp_server.py:431-521: the documents of the category, sorted by title
\* (stored titles grow with the row, so by row)
list_documents(v, category) ==
    LET listed == list_all_documents(v, "p1").result
        documents == SelectSeq(v.docs, LAMBDA d :
                         d \in Range(listed) /\ (category = "" \/ d.category = category))
    IN  except_Exception(ToolResponse("", documents, <<>>, FALSE, TRUE, "not_run", <<>>, FALSE),
                         "Failed to list documents")

Queries == {<<>>, <<" ">>, <<" ", "q">>}
SlugInputs == {<<>>, <<" ">>, <<"d", "1">>, <<"d", "1", " ">>, <<"d">>, <<"t">>, <<"z">>}
LimitInputs == {0, 1, 21}
CategoryInputs == {"", "c2"}
Generators == {"none", "ok", "raise"}

ToolCall(tool, text, category, limit, generator, out) ==
    [tool |-> tool, text |-> text, category |-> category, limit |-> limit,
     generator |-> generator, out |-> out]

NoToolCall ==
    ToolCall("none", <<>>, "", 0, "none",
             ToolResponse("", <<>>, <<>>, FALSE, FALSE, "not_run", <<>>, FALSE))

AccessorCall(op, text, out) == [op |-> op, text |-> text, out |-> out]

NoAccessorCall == AccessorCall("none", <<>>, Returned("None", <<>>))

\* No request has been served yet. The tools and the accessors only read
\* the database, so every request is served in the state the first one sees.
Idle == tool_call = NoToolCall /\ acc_call = NoAccessorCall

\* the searchDoc tool
SearchDoc ==
    /\ Idle
    /\ \E query \in Queries, category \in CategoryInputs, limit \in LimitInputs,
          generator \in Generators :
        /\ IsBlank(query) => (category = "" /\ limit = 1)
        /\ tool_call' = ToolCall("searchDoc", query, category, limit, generator,
                                 search_documents(vdb, query, category, limit, generator))
    /\ UNCHANGED <<vdb, acc_call>>
    /\ UNCHANGED <<crawlVars, dbVars, groupVars, navVars, embedVars, validateVars, toolVars, dedupVars, expandVars, generateVars, reviewVars>>

\* the loadDoc tool
LoadDoc ==
    /\ Idle
    /\ \E slug \in SlugInputs :
        tool_call' = ToolCall("loadDoc", slug, "", 0, "none", load_document(vdb, slug))
    /\ UNCHANGED <<vdb, acc_call>>
    /\ UNCHANGED <<crawlVars, dbVars, groupVars, navVars, embedVars, validateVars, toolVars, dedupVars, expandVars, generateVars, reviewVars>>

\* the listDoc tool
ListDoc ==
    /\ Idle
    /\ \E category \in CategoryInputs :
        tool_call' = ToolCall("listDoc", <<>>, category, 0, "none", list_documents(vdb, category))
    /\ UNCHANGED <<vdb, acc_call>>
    /\ UNCHANGED <<crawlVars, dbVars, groupVars, navVars, embedVars, validateVars, toolVars, dedupVars, expandVars, generateVars, reviewVars>>

\* the embedding-aware accessors of VectorDatabaseManager, called directly
GetProjectEmbeddingConfig ==
    /\ Idle
    /\ \E project_name \in ProjectNames :
        acc_call' = AccessorCall("get_project_embedding_config", <<>>,
                                 get_project_embedding_config(vdb, project_name))
    /\ UNCHANGED <<vdb, tool_call>>
    /\ UNCHANGED <<crawlVars, dbVars, groupVars, navVars, embedVars, validateVars, toolVars, dedupVars, expandVars, generateVars, reviewVars>>

ListAllDocuments ==
    /\ Idle
    /\ acc_call' = AccessorCall("list_all_documents", <<>>, list_all_documents(vdb, "p1"))
    /\ UNCHANGED <<vdb, tool_call>>
    /\ UNCHANGED <<crawlVars, dbVars, groupVars, navVars, embedVars, validateVars, toolVars, dedupVars, expandVars, generateVars, reviewVars>>

GetDocumentBySlug ==
    /\ Idle
    /\ \E slug \in SlugInputs \ {<<>>} :
        acc_call' = AccessorCall("get_document_by_slug", slug, get_document_by_slug(vdb, slug))
    /\ UNCHANGED <<vdb, tool_call>>
    /\ UNCHANGED <<crawlVars, dbVars, groupVars, navVars, embedVars, validateVars, toolVars, dedupVars, expandVars, generateVars, reviewVars>>

GetSimilarSlugs ==
    /\ Idle
    /\ \E slug \in SlugInputs \ {<<>>} :
        acc_call' = AccessorCall("get_similar_slugs", slug,
                                 get_similar_slugs(vdb, slug, SlugSuggestions))
    /\ UNCHANGED <<vdb, tool_call>>
    /\ UNCHANGED <<crawlVars, dbVars, groupVars, navVars, embedVars, validateVars, toolVars, dedupVars, expandVars, generateVars, reviewVars>>

SearchSimilarDocuments ==
    /\ Idle
    /\ \E limit \in LimitInputs \ {0} :
        acc_call' = AccessorCall("search_similar_documents", <<>>,
                                 search_similar_documents(vdb, "", limit, 0))
    /\ UNCHANGED <<vdb, tool_call>>
    /\ UNCHANGED <<crawlVars, dbVars, groupVars, navVars, embedVars, validateVars, toolVars, dedupVars, expandVars, generateVars, reviewVars>>

\* ============================== embedding_generator / vector_database storage

\* embedding_generator.py:27 supported_models
SupportedModels == {"all-MiniLM-L6-v2", "Qwen/Qwen3-Embedding-0.6B"}

\* The dimension SentenceTransformer(model) reports for the two supported
\* models (models.py:65-68).
get_sentence_embedding_dimension(model_name) ==
    IF model_name = "all-MiniLM-L6-v2" THEN 384 ELSE 1024

Dimensions == {get_sentence_embedding_dimension(m) : m \in SupportedModels}

\* models.py:51-59  EmbeddingConfig: `dimension` is a field the caller may
\* set independently of `model` (its default is 384 for every model).
EmbeddingConfig(model_name, dimension) == [model |-> model_name, dimension |-> dimension]

EmbeddingConfigs == {EmbeddingConfig(m, d) : m \in SupportedModels, d \in Dimensions}

\* embedding_generator.py:17-30  __init__: the model is not loaded yet.
EmbeddingGenerator(config) == [config |-> config, loaded |-> FALSE]

NoGenerator == EmbeddingGenerator(EmbeddingConfig("all-MiniLM-L6-v2", 384))

\* embedding_generator.py:32-48  the `model` property: the first access
\* loads the model and overwrites config.dimension with the model's.
model(g) ==
    IF g.loaded THEN g
    ELSE [config |-> [g.config EXCEPT !.dimension =
                        get_sentence_embedding_dimension(g.config.model)],
          loaded |-> TRUE]

\* A vector, by its length.
Vector(n) == [length |-> n]
NoEmbedding == Vector(0)

Texts == {"", " ", "text"}

\* embedding_generator.py:50-75  generate_embedding: the generator after the
\* call and the vector returned. Empty and blank text give a zero vector of
\* config.dimension without touching the model.
generate_embedding(g, text) ==
    IF text = "" \/ text = " "
      THEN [gen |-> g, embedding |-> Vector(g.config.dimension)]
      ELSE LET g1 == model(g)
           IN  [gen |-> g1,
                embedding |-> Vector(get_sentence_embedding_dimension(g1.config.model))]

Slugs == {"d1", "d2"}
SectionIds == {"s1"}

\* The file before any statement: the tables of database.py and of
\* initialize_vector_schema are missing. embedding_config maps a project id
\* to the (embedding_model, embedding_dimension) columns of its row.
EmptyVecDb ==
    [schema |-> FALSE, projects |-> <<>>, embedding_config |-> <<>>,
     document_embeddings |-> {}, section_embeddings |-> {}]

\* vector_database.py:144-166  store_project_embedding_config
store_project_embedding_config(d, project_name, config) ==
    LET d1 == _get_or_create_project(d, project_name, "")
        project_id == ProjectId(d1, project_name)
        old == d.embedding_config
    IN  [d1 EXCEPT !.embedding_config =
           [k \in 1..Len(d1.projects) |-> IF k = project_id THEN config ELSE old[k]]]

\* vector_database.py:68-142  initialize_vector_schema
initialize_vector_schema(d, project_name, embedding_config) ==
    store_project_embedding_config([d EXCEPT !.schema = TRUE], project_name, embedding_config)

\* INSERT OR REPLACE on the primary key `key`.
InsertOrReplace(rows, key, row) == {r \in rows : r[key] # row[key]} \cup {row}

\* vector_database.py:222-276  store_document_embedding: the vector is
\* serialised as it comes.
store_document_embedding(d, slug, project_name, vec) ==
    IF ~d.schema THEN [raised |-> "OperationalError", work |-> d]
    ELSE IF ProjectRows(d, project_name) = {} THEN [raised |-> "ValueError", work |-> d]
    ELSE [raised |-> "none",
          work |-> [d EXCEPT !.document_embeddings =
                      InsertOrReplace(@, "slug",
                          [slug |-> slug, project_id |-> ProjectId(d, project_name),
                           embedding |-> vec])]]

\* vector_database.py:278-314  store_section_embedding: no SELECT of the
\* parent document; the connection never runs PRAGMA foreign_keys = ON
\* (vector_database.py:33-66), so SQLite does not enforce the FOREIGN KEY.
store_section_embedding(d, section_id, document_slug, vec) ==
    IF ~d.schema THEN [raised |-> "OperationalError", work |-> d]
    ELSE [raised |-> "none",
          work |-> [d EXCEPT !.section_embeddings =
                      InsertOrReplace(@, "section_id",
                          [section_id |-> section_id, document_slug |-> document_slug,
                           embedding |-> vec])]]

\* content_processor.py:183-186: the schema is initialised with the config
\* object the generator holds.
InitializeVectorSchema ==
    \E project_name \in ProjectNames :
        /\ edb' = initialize_vector_schema(edb, project_name, gen.config)
        /\ emb_raised' = "none"
        /\ UNCHANGED <<gen, embedding>>
        /\ UNCHANGED <<crawlVars, dbVars, groupVars, navVars, srvVars, validateVars, toolVars, dedupVars, expandVars, generateVars, reviewVars>>

GenerateEmbedding ==
    \E text \in Texts :
        LET out == generate_embedding(gen, text)
        IN  /\ gen' = out.gen
            /\ embedding' = out.embedding
            /\ UNCHANGED <<edb, emb_raised>>
            /\ UNCHANGED <<crawlVars, dbVars, groupVars, navVars, srvVars, validateVars, toolVars, dedupVars, expandVars, generateVars, reviewVars>>

StoreDocumentEmbedding ==
    \E slug \in Slugs, project_name \in ProjectNames :
        /\ embedding # NoEmbedding
        /\ LET run == store_document_embedding(edb, slug, project_name, embedding)
           IN  /\ edb' = _get_connection(edb, run)
               /\ emb_raised' = run.raised
        /\ UNCHANGED <<gen, embedding>>
        /\ UNCHANGED <<crawlVars, dbVars, groupVars, navVars, srvVars, validateVars, toolVars, dedupVars, expandVars, generateVars, reviewVars>>

StoreSectionEmbedding ==
    \E section_id \in SectionIds, document_slug \in Slugs :
        /\ embedding # NoEmbedding
        /\ LET run == store_section_embedding(edb, section_id, document_slug, embedding)
           IN  /\ edb' = _get_connection(edb, run)
               /\ emb_raised' = run.raised
        /\ UNCHANGED <<gen, embedding>>
        /\ UNCHANGED <<crawlVars, dbVars, groupVars, navVars, srvVars, validateVars, toolVars, dedupVars, expandVars, generateVars, reviewVars>>


\* ============================================= cli.py: validate_project_name

\* The characters of [a-zA-Z0-9_-], by one representative per range.
NameClass == {"a", "Z", "7", "_", "-"}

\* Characters outside the class: space, punctuation, dot, newline.
OtherChars == {" ", "!", ".", "\n"}

NameInputs == SeqsUpTo(NameClass \cup OtherChars, MaxNameLen)

\* Python's `$` without re.MULTILINE: at the end of the string, or just
\* before a newline that is the last character of the string.
DollarMatchesAt(s, k) ==
    \/ k = Len(s)
    \/ k = Len(s) - 1 /\ s[Len(s)] = "\n"

\* cli.py:48-61  bool(re.match(r'^[a-zA-Z0-9_-]+$', name)): some non-empty
\* prefix of class characters ends where `$` matches.
validate_project_name(name) ==
    \E k \in 1..Len(name) :
        /\ \A j \in 1..k : name[j] \in NameClass
        /\ DollarMatchesAt(name, k)

\* cli.py:448-450: generate validates the PROJECT_NAME argument.
ValidateProjectName ==
    /\ vpc = "input"
    /\ vpc' = "validated"
    /\ name_valid' = validate_project_name(name_arg)
    /\ UNCHANGED name_arg
    /\ UNCHANGED <<crawlVars, dbVars, groupVars, navVars, srvVars, embedVars, toolVars, dedupVars, expandVars, generateVars, reviewVars>>


\* ============================================ mcp_server.py: create_mcp_server

\* Characters of content group names: a lowercase and an uppercase letter, a
\* digit, underscore, hyphen, whitespace and a special character.
GroupNameChars == {"a", "A", "1", "_", "-", " ", "!"}

\* Names of one or two characters; a third group of a project is drawn from
\* two names.
ToolGroupNames(k) ==
    IF k <= 2 THEN SeqsUpTo(GroupNameChars, 2) \ {<<>>}
    ELSE {<<"a">>, <<"A", "!">>}

\* The rows of content_groups of the project: names are UNIQUE per project
\* (database.py:70); the summary of the k-th group names its position.
StoredGroup(name, k) == [name |-> name, summary_markdown |-> <<"s", k>>]

RECURSIVE StoredGroupLists(_)
StoredGroupLists(n) ==
    IF n = 0 THEN {<<>>}
    ELSE {Append(gs, StoredGroup(name, n)) :
            gs \in StoredGroupLists(n - 1),
            name \in ToolGroupNames(n)}

DistinctNames(gs) == \A a, b \in 1..Len(gs) : a # b => gs[a].name # gs[b].name

ToolDbs ==
    {[schema |-> FALSE, groups |-> <<>>]}
    \cup {[schema |-> TRUE, groups |-> gs] :
            gs \in {l \in UNION {StoredGroupLists(n) : n \in 0..MaxToolGroups} :
                      DistinctNames(l)}}

\* str.lower() on the characters of group names
LowerName(s) == [k \in 1..Len(s) |-> IF s[k] = "A" THEN "a" ELSE s[k]]

\* re.sub(r'\s+', '_', s) for c = " " and re.sub(r'_+', '_', s) for c = "_":
\* every maximal run of c becomes one underscore.
RECURSIVE RunsToUnderscore(_, _)
RunsToUnderscore(s, c) ==
    IF s = <<>> THEN <<>>
    ELSE IF s[1] # c THEN <<s[1]>> \o RunsToUnderscore(Tail(s), c)
    ELSE IF Len(s) > 1 /\ s[2] = c THEN RunsToUnderscore(Tail(s), c)
    ELSE <<"_">> \o RunsToUnderscore(Tail(s), c)

\* re.sub(r'[^a-z0-9_-]', '', s)
RemoveSpecial(s) == SelectSeq(s, LAMBDA c : c \in {"a", "1", "_", "-"})

\* str.strip('_-')
RECURSIVE StripUnderscoreHyphen(_)
StripUnderscoreHyphen(s) ==
    IF s = <<>> THEN s
    ELSE IF s[1] \in {"_", "-"} THEN StripUnderscoreHyphen(Tail(s))
    ELSE IF s[Len(s)] \in {"_", "-"} THEN StripUnderscoreHyphen(SubSeq(s, 1, Len(s) - 1))
    ELSE s

\* mcp_server.py:25-56  sanitize_tool_name
sanitize_tool_name(name) ==
    LET lowered == LowerName(name)
        spaced == RunsToUnderscore(lowered, " ")
        cleaned == RemoveSpecial(spaced)
        collapsed == RunsToUnderscore(cleaned, "_")
        stripped == StripUnderscoreHyphen(collapsed)
        sanitized == IF stripped # <<>> /\ stripped[1] # "a"
                       THEN <<"d", "o", "c", "_">> \o stripped
                       ELSE stripped
    IN  IF sanitized = <<>>
          THEN <<"d", "o", "c", "u", "m", "e", "n", "t", "a", "t", "i", "o", "n">>
          ELSE sanitized

Tool(name, kind, group_name) == [name |-> name, kind |-> kind, group_name |-> group_name]

\* mcp_server.py:217-521  register_search_tools: searchDoc, loadDoc, listDoc
SearchTools ==
    <<Tool(<<"searchDoc">>, "search", <<>>), Tool(<<"loadDoc">>, "search", <<>>),
      Tool(<<"listDoc">>, "search", <<>>)>>

\* What FastMCP's tool manager does when a name is registered again: the new
\* tool replaces the old one, the new tool is dropped, or the registration
\* raises (mcp_server.py:204-207 logs it and continues).
DuplicatePolicies == {"replace", "ignore", "error"}

\* mcp_server.py:168-199  create_tool_handler(group.name, tool_name)
RegisterTool(registered, tool, policy) ==
    IF \E k \in 1..Len(registered) : registered[k].name = tool.name
      THEN IF policy = "replace"
             THEN [k \in 1..Len(registered) |->
                     IF registered[k].name = tool.name THEN tool ELSE registered[k]]
             ELSE registered
      ELSE Append(registered, tool)

\* mcp_server.py:159-207: the loop over the content groups
RECURSIVE RegisterGroupTools(_, _, _)
RegisterGroupTools(registered, gs, policy) ==
    IF gs = <<>> THEN registered
    ELSE RegisterGroupTools(
             RegisterTool(registered,
                          Tool(sanitize_tool_name(gs[1].name), "group", gs[1].name),
                          policy),
             Tail(gs), policy)

\* mcp_server.py:92-214  create_mcp_server: db_manager is a
\* VectorDatabaseManager from line 118 on, so line 154 never raises; the
\* SELECT of get_all_content_groups raises on a file without tables and the
\* outer handler re-raises.
create_mcp_server(d, policy) ==
    IF ~d.schema THEN [raised |-> "OperationalError", tools |-> <<>>]
    ELSE [raised |-> "none", tools |-> RegisterGroupTools(SearchTools, d.groups, policy)]

\* mcp_server.py:170-193  tool_handler: get_content_group_by_name and its
\* summary_markdown
tool_handler(d, tool) ==
    LET rows == {k \in 1..Len(d.groups) : d.groups[k].name = tool.group_name}
    IN  IF rows = {} THEN <<"Error", 0>>
        ELSE d.groups[CHOOSE k \in rows : TRUE].summary_markdown

Invocation(group, tool_name, result) == [group |-> group, tool |-> tool_name, result |-> result]
NoInvocation == Invocation(0, <<>>, <<>>)

CreateMcpServer ==
    /\ tpc = "start"
    /\ LET run == create_mcp_server(tool_db, on_duplicate)
       IN  /\ tools' = run.tools
           /\ tpc' = IF run.raised = "none" THEN "serving" ELSE "raised"
    /\ UNCHANGED <<tool_db, on_duplicate, tool_result>>
    /\ UNCHANGED <<crawlVars, dbVars, groupVars, navVars, srvVars, embedVars, validateVars, dedupVars, expandVars, generateVars, reviewVars>>

\* A client invokes the tool named after the k-th group.
InvokeGroupTool ==
    \E k \in 1..Len(tool_db.groups) :
        /\ tpc = "serving"
        /\ LET name == sanitize_tool_name(tool_db.groups[k].name)
               tool == tools[CHOOSE t \in 1..Len(tools) : tools[t].name = name]
           IN  tool_result' = Invocation(k, name, tool_handler(tool_db, tool))
        /\ UNCHANGED <<tool_db, on_duplicate, tpc, tools>>
        /\ UNCHANGED <<crawlVars, dbVars, groupVars, navVars, srvVars, embedVars, validateVars, dedupVars, expandVars, generateVars, reviewVars>>


\* ===================== content_processor.py: _deduplicate_content_with_context

\* A code block: its text by number, the language get_language_priority
\* detects in it, and whether it is written with extra whitespace.
CodeBlock(text, lang, spaced) == [text |-> text, lang |-> lang, spaced |-> spaced]

\* content_processor.py:598, 614  hash(re.sub(r'\s+', ' ', code).strip()):
\* blocks that differ in whitespace only have one fingerprint.
CodeFingerprint(block) == [text |-> block.text, lang |-> block.lang]

\* content_processor.py:285-302  get_language_priority
get_language_priority(block) ==
    IF block.lang = "javascript" THEN 1
    ELSE IF block.lang = "python" THEN 2
    ELSE IF block.lang = "php" THEN 3
    ELSE 4

\* The k-th code block of a page: the first two are drawn from three blocks
\* (two of them whitespace variants of each other), the others are fixed
\* and pairwise different.
CodeBlockChoices(k) ==
    IF k <= 2
      THEN {CodeBlock(1, "other", FALSE), CodeBlock(1, "other", TRUE),
            CodeBlock(2, "javascript", FALSE)}
      ELSE {CodeBlock(k, IF k = 3 THEN "python" ELSE "php", FALSE)}

RECURSIVE CodeBlockLists(_)
CodeBlockLists(n) ==
    IF n = 0 THEN {<<>>}
    ELSE {Append(l, b) : l \in CodeBlockLists(n - 1), b \in CodeBlockChoices(n)}

\* Page content: the first 300 characters (a word, its case and its
\* spacing) and the rest of the text.
Content(word, upper, spaced, rest) == [word |-> word, upper |-> upper, spaced |-> spaced, rest |-> rest]

\* content_processor.py:592-593
\* hash(re.sub(r'\s+', ' ', page.content[:300]).strip().lower())
ContentFingerprint(content) == content.word

ContentChoices(k) ==
    IF k <= 2
      THEN {Content("intro", FALSE, FALSE, 1), Content("intro", TRUE, TRUE, 2),
            Content("guide", FALSE, FALSE, 1)}
      ELSE {Content("intro", FALSE, FALSE, 3), Content("api", FALSE, FALSE, 1)}

\* The k-th page of the group: the first page carries few blocks or about
\* MaxCodeBlocks of them, the second up to two, the others none.
DedupPageChoices(k) ==
    {[url |-> k, content |-> c, code_blocks |-> l] :
        c \in ContentChoices(k),
        l \in UNION {CodeBlockLists(n) :
                       n \in IF k = 1 THEN {0, 1, 2, MaxCodeBlocks - 1, MaxCodeBlocks}
                             ELSE IF k = 2 THEN 0..2 ELSE {0}}}

RECURSIVE DedupPageLists(_)
DedupPageLists(n) ==
    IF n = 0 THEN {<<>>}
    ELSE {Append(l, p) : l \in DedupPageLists(n - 1), p \in DedupPageChoices(n)}

DedupInputs == UNION {DedupPageLists(n) : n \in 0..MaxDedupPages}

\* content_processor.py:630  final_code_blocks[:10]
MaxKeptCodeBlocks == 10

\* content_processor.py:596-603: the blocks of the page whose fingerprint is
\* not in seen_code_blocks, each fingerprint added as it is met.
RECURSIVE UniqueCodeBlocks(_, _)
UniqueCodeBlocks(blocks, seen) ==
    IF blocks = <<>> THEN <<>>
    ELSE IF CodeFingerprint(blocks[1]) \in seen
      THEN UniqueCodeBlocks(Tail(blocks), seen)
      ELSE <<blocks[1]>> \o UniqueCodeBlocks(Tail(blocks), seen \cup {CodeFingerprint(blocks[1])})

\* sorted(code_blocks, key=get_language_priority): a stable sort
RECURSIVE InsertByPriority(_, _)
InsertByPriority(sorted, block) ==
    IF sorted = <<>> THEN <<block>>
    ELSE IF get_language_priority(sorted[Len(sorted)]) <= get_language_priority(block)
      THEN Append(sorted, block)
      ELSE Append(InsertByPriority(SubSeq(sorted, 1, Len(sorted) - 1), block),
                  sorted[Len(sorted)])

RECURSIVE PrioritizeFrom(_, _)
PrioritizeFrom(sorted, blocks) ==
    IF blocks = <<>> THEN sorted
    ELSE PrioritizeFrom(InsertByPriority(sorted, blocks[1]), Tail(blocks))

\* content_processor.py:267-306  _prioritize_code_blocks
_prioritize_code_blocks(code_blocks) == PrioritizeFrom(<<>>, code_blocks)

\* content_processor.py:611-630: unique_code_blocks + page.code_blocks is
\* prioritised, deduplicated within the page and cut to ten blocks.
FinalCodeBlocks(unique_code_blocks, page_blocks) ==
    Take(UniqueCodeBlocks(_prioritize_code_blocks(unique_code_blocks \o page_blocks), {}),
         MaxKeptCodeBlocks)

\* content_processor.py:606-607 without `or has_unique_code`
KeepPageContentOnly(has_unique_content, has_unique_code) == has_unique_content

\* content_processor.py:606-609  `if has_unique_content or has_unique_code`
KeepPage(has_unique_content, has_unique_code) == has_unique_content \/ has_unique_code

\* content_processor.py:590-630: the loop, from the state (unique_pages,
\* seen_content_hashes, seen_code_blocks) over the remaining pages.
RECURSIVE DedupLoop(_, _, _, _)
DedupLoop(rest, kept, seen_content_hashes, seen_code_blocks) ==
    IF rest = <<>> THEN kept
    ELSE LET page == rest[1]
             content_hash == ContentFingerprint(page.content)
             unique_code_blocks == UniqueCodeBlocks(page.code_blocks, seen_code_blocks)
             seen_code == seen_code_blocks
                            \cup {CodeFingerprint(b) : b \in Range(unique_code_blocks)}
             has_unique_content == content_hash \notin seen_content_hashes
             has_unique_code == Len(unique_code_blocks) > 0
         IN  IF KeepPage(has_unique_content, has_unique_code)
               THEN DedupLoop(Tail(rest),
                              Append(kept,
                                     [page EXCEPT !.code_blocks =
                                        FinalCodeBlocks(unique_code_blocks, page.code_blocks)]),
                              seen_content_hashes \cup {content_hash}, seen_code)
               ELSE DedupLoop(Tail(rest), kept, seen_content_hashes, seen_code)

\* content_processor.py:571-633  _deduplicate_content_with_context
_deduplicate_content_with_context(page_list) ==
    IF page_list = <<>> THEN page_list
    ELSE DedupLoop(page_list, <<>>, {}, {})

DeduplicateContent ==
    /\ dpc = "input"
    /\ dpc' = "done"
    /\ unique_pages' = _deduplicate_content_with_context(dd_pages)
    /\ UNCHANGED dd_pages
    /\ UNCHANGED <<crawlVars, dbVars, groupVars, navVars, srvVars, embedVars, validateVars, toolVars, expandVars, generateVars, reviewVars>>


\* ==================== ms_learn_extractor.py: _expand_all_tree_sections

\* ms_learn_extractor.py:76  max_iterations
max_iterations == 5

TreeNodes == 1..MaxTreeNodes

\* The aria-expanded state of a tree item; a hidden item is not in the DOM
\* yet.
ItemStates == {"hidden", "collapsed", "expanded"}

\* page.query_selector_all('li[aria-expanded="false"]'): the collapsed items
\* in document order.
CollapsedItems(t) == SelectSeq([n \in TreeNodes |-> n], LAMBDA n : t[n] = "collapsed")

\* What the page may look like after a click on `item`: the item expands or
\* stays as it is, hidden items may appear collapsed, expanded items may
\* collapse again.
PageReactions(t, item) ==
    {u \in [TreeNodes -> ItemStates] :
        \A n \in TreeNodes :
            \/ u[n] = t[n]
            \/ n = item /\ u[n] = "expanded"
            \/ n # item /\ t[n] = "hidden" /\ u[n] = "collapsed"
            \/ n # item /\ t[n] = "expanded" /\ u[n] = "collapsed"}

\* ms_learn_extractor.py:117-119 with the break removed
PassBreaksNever(count) == FALSE

\* ms_learn_extractor.py:117-119  `if expanded_count == 0: break`
PassBreaks(count) == count = 0

\* ms_learn_extractor.py:79-89: the loop test, the query and the break on an
\* empty list.
QueryCollapsed ==
    /\ epc = "while"
    /\ iteration < max_iterations
    /\ iteration' = iteration + 1
    /\ collapsed_items' = CollapsedItems(tree)
    /\ item_pos' = 1
    /\ expanded_count' = 0
    /\ verified' = FALSE
    /\ epc' = IF CollapsedItems(tree) = <<>> THEN "final_check" ELSE "for"
    /\ UNCHANGED <<tree, expanders, final_clicked>>
    /\ UNCHANGED <<crawlVars, dbVars, groupVars, navVars, srvVars, embedVars, validateVars, toolVars, dedupVars, generateVars, reviewVars>>

\* ms_learn_extractor.py:79: the loop test fails after max_iterations passes.
IterationCapHit ==
    /\ epc = "while"
    /\ iteration >= max_iterations
    /\ epc' = "final_check"
    /\ UNCHANGED <<tree, expanders, iteration, collapsed_items, item_pos, expanded_count,
                   verified, final_clicked>>
    /\ UNCHANGED <<crawlVars, dbVars, groupVars, navVars, srvVars, embedVars, validateVars, toolVars, dedupVars, generateVars, reviewVars>>

\* ms_learn_extractor.py:94-115: one item of the pass. Without an expander,
\* or when the click raises, nothing is counted; a click that returns is
\* counted before aria-expanded is read.
ExpandItem ==
    /\ epc = "for"
    /\ item_pos <= Len(collapsed_items)
    /\ LET item == collapsed_items[item_pos]
       IN  \/ /\ item \in expanders
              /\ \E u \in PageReactions(tree, item) :
                    /\ tree' = u
                    /\ verified' = (verified \/ u[item] = "expanded")
              /\ expanded_count' = expanded_count + 1
           \/ /\ UNCHANGED <<tree, expanded_count, verified>>
    /\ item_pos' = item_pos + 1
    /\ UNCHANGED <<expanders, epc, iteration, collapsed_items, final_clicked>>
    /\ UNCHANGED <<crawlVars, dbVars, groupVars, navVars, srvVars, embedVars, validateVars, toolVars, dedupVars, generateVars, reviewVars>>

\* ms_learn_extractor.py:117-122: the end of a pass
EndPass ==
    /\ epc = "for"
    /\ item_pos > Len(collapsed_items)
    /\ epc' = IF PassBreaks(expanded_count) THEN "final_check" ELSE "while"
    /\ UNCHANGED <<tree, expanders, iteration, collapsed_items, item_pos, expanded_count,
                   verified, final_clicked>>
    /\ UNCHANGED <<crawlVars, dbVars, groupVars, navVars, srvVars, embedVars, validateVars, toolVars, dedupVars, generateVars, reviewVars>>

\* ms_learn_extractor.py:124-131: the final query
FinalCheck ==
    /\ epc = "final_check"
    /\ collapsed_items' = CollapsedItems(tree)
    /\ item_pos' = 1
    /\ epc' = IF CollapsedItems(tree) = <<>> THEN "done" ELSE "final_for"
    /\ UNCHANGED <<tree, expanders, iteration, expanded_count, verified, final_clicked>>
    /\ UNCHANGED <<crawlVars, dbVars, groupVars, navVars, srvVars, embedVars, validateVars, toolVars, dedupVars, generateVars, reviewVars>>

\* ms_learn_extractor.py:133-139: item.click() on a still-collapsed item; an
\* exception is swallowed.
FinalClick ==
    /\ epc = "final_for"
    /\ item_pos <= Len(collapsed_items)
    /\ LET item == collapsed_items[item_pos]
       IN  /\ final_clicked' = Append(final_clicked, item)
           /\ \/ \E u \in PageReactions(tree, item) : tree' = u
              \/ UNCHANGED tree
    /\ item_pos' = item_pos + 1
    /\ UNCHANGED <<expanders, epc, iteration, collapsed_items, expanded_count, verified>>
    /\ UNCHANGED <<crawlVars, dbVars, groupVars, navVars, srvVars, embedVars, validateVars, toolVars, dedupVars, generateVars, reviewVars>>

\* ms_learn_extractor.py:141-144: the function returns.
EndFinal ==
    /\ epc = "final_for"
    /\ item_pos > Len(collapsed_items)
    /\ epc' = "done"
    /\ UNCHANGED <<tree, expanders, iteration, collapsed_items, item_pos, expanded_count,
                   verified, final_clicked>>
    /\ UNCHANGED <<crawlVars, dbVars, groupVars, navVars, srvVars, embedVars, validateVars, toolVars, dedupVars, generateVars, reviewVars>>


\* ================================ cli.py: generate_mcp_server_async (storing)

\* The project the run generates.
RunProject == "p1"

\* process_content's result on reaching step 4: a non-empty list (an empty
\* one returns at cli.py:349-355).
RunGroupLists == SeqsUpTo(GroupInputs, MaxRunGroups) \ {<<>>}

\* The database at step 4: initialize_schema has run (cli.py:258-259) on a
\* new file or on a file that holds a group of an earlier run of the project.
RunDbs ==
    LET fresh == [EmptyDb EXCEPT !.schema = TRUE]
        earlier == [name |-> "g1", summary_markdown |-> "s1", pages |-> <<>>]
    IN  {fresh,
         _get_connection(fresh, store_content_group(fresh, RunProject, earlier, RootUrl, 0))}

\* cli.py:361-362 and 379-386: one turn of `for group in content_groups`.
\* store_content_group commits or rolls back its own transaction; what it
\* raises ends the run in the `except Exception` with success=False. After
\* the last group the run returns success=True (cli.py:366-371).
StoreRunGroup ==
    /\ run_result = "running"
    /\ run_stored < Len(run_groups)
    /\ LET group == run_groups[run_stored + 1]
       IN  \E inj \in 0..(3 + Len(group.pages)) :
             /\ inj = 2 => ProjectRows(db, RunProject) = {}
             /\ LET run == store_content_group(db, RunProject, group, RootUrl, inj)
                IN  /\ db' = _get_connection(db, run)
                    /\ last' = Call("store_content_group", RunProject, group,
                                    IF run.raised = "none"
                                      THEN Returned("id", <<run.id>>)
                                      ELSE Raised(run.raised),
                                    run.failed_at)
                    /\ run_stored' = IF run.raised = "none" THEN run_stored + 1 ELSE run_stored
                    /\ run_result' = IF run.raised # "none" THEN "failure"
                                     ELSE IF run_stored + 1 = Len(run_groups) THEN "success"
                                     ELSE "running"
    /\ UNCHANGED <<run_groups, db_before>>
    /\ UNCHANGED <<crawlVars, groupVars, navVars, srvVars, embedVars, validateVars, toolVars, dedupVars, expandVars, reviewVars>>


\* =========================================== cli.py: _verify_and_filter_links

\* cli.py:98  page_size
page_size == 20

\* The pages the extracted links point to, one per position.
ReviewPaths ==
    <<"/r01", "/r02", "/r03", "/r04", "/r05", "/r06", "/r07", "/r08", "/r09", "/r10",
      "/r11", "/r12", "/r13", "/r14", "/r15", "/r16", "/r17", "/r18", "/r19", "/r20",
      "/r21", "/r22", "/r23", "/r24">>

\* The list extract_navigation_links returned: non-empty (cli.py:292-298)
\* and without two links to one URL.
ExtractedLinks(n) ==
    [k \in 1..n |-> DocumentationLink(Url("https:", "docs.example.com", ReviewPaths[k], ""), "t")]

ReviewInputs == {ExtractedLinks(n) : n \in {1, 2, MaxReviewLinks}}

\* What the user types at "Enter indices to remove": 'all', one number, a
\* range 'a-b', or something int() rejects.
IndexInputs ==
    {[kind |-> "all", a |-> 0, b |-> 0], [kind |-> "invalid", a |-> 0, b |-> 0]}
    \cup {[kind |-> "single", a |-> a, b |-> a] : a \in {0, 1, MaxReviewLinks + 5}}
    \cup {[kind |-> "range", a |-> 1, b |-> 2], [kind |-> "range", a |-> 2, b |-> 1]}

\* cli.py:146-155: the 0-based indices of one part of the input
indices_to_remove(input) ==
    IF input.kind = "single" THEN {input.a - 1}
    ELSE (input.a - 1)..(input.b - 1)

\* cli.py:158-162: the list without the valid indices
RemoveIndices(link_list, indices) ==
    LET valid_indices == {n \in indices : 0 <= n /\ n < Len(link_list)}
        keep == SelectSeq([k \in 1..Len(link_list) |-> k], LAMBDA k : (k - 1) \notin valid_indices)
    IN  [k \in 1..Len(keep) |-> link_list[keep[k]]]

\* The anchors a CSS selector can match on the page: two spellings of one
\* new page, a pure anchor, and a page already listed.
SelectableAnchors ==
    {Anchor(Url("", "", "/intro", ""), "Intro"),
     Anchor(Url("https:", "docs.example.com", "/intro", ""), "Introduction"),
     Anchor(Url("", "", "", "top"), "Top"),
     Anchor(Url("", "", ReviewPaths[1], ""), "t")}

\* soup.select(selector) with the anchors inside the matched elements, in
\* document order; <<>> when nothing matches.
Selections == SeqsUpTo(SelectableAnchors, MaxSelected)

\* cli.py:195-205: the links _create_doc_link makes of the anchors
RECURSIVE NewLinks(_, _)
NewLinks(elements, base_url) ==
    IF elements = <<>> THEN <<>>
    ELSE _create_doc_link(elements[1], base_url) \o NewLinks(Tail(elements), base_url)

\* cli.py:208-210: the new links whose URL is not in the current list
UniqueNewLinks(link_list, new_links) ==
    LET existing_urls == {link_list[k].url : k \in 1..Len(link_list)}
    IN  SelectSeq(new_links, LAMBDA link : link.url \notin existing_urls)

Return(link_list) ==
    /\ rpc' = "returned"
    /\ returned_links' = link_list
    /\ UNCHANGED <<current_links, review_page>>

\* cli.py:114-117  [p] with the confirmation
Proceed ==
    /\ rpc = "prompt"
    /\ \E confirm \in BOOLEAN :
          IF confirm THEN Return(current_links) ELSE UNCHANGED reviewVars
    /\ UNCHANGED <<crawlVars, dbVars, groupVars, navVars, srvVars, embedVars, validateVars, toolVars, dedupVars, expandVars, generateVars>>

\* cli.py:119-124  [n]
NextPage ==
    /\ rpc = "prompt"
    /\ review_page' = IF (review_page + 1) * page_size < Len(current_links)
                        THEN review_page + 1 ELSE review_page
    /\ UNCHANGED <<current_links, rpc, returned_links>>
    /\ UNCHANGED <<crawlVars, dbVars, groupVars, navVars, srvVars, embedVars, validateVars, toolVars, dedupVars, expandVars, generateVars>>

\* cli.py:126-131  [b]
PreviousPage ==
    /\ rpc = "prompt"
    /\ review_page' = IF review_page > 0 THEN review_page - 1 ELSE review_page
    /\ UNCHANGED <<current_links, rpc, returned_links>>
    /\ UNCHANGED <<crawlVars, dbVars, groupVars, navVars, srvVars, embedVars, validateVars, toolVars, dedupVars, expandVars, generateVars>>

\* cli.py:133-170  [r]
RemoveLinks ==
    /\ rpc = "prompt"
    /\ \E input \in IndexInputs :
          IF input.kind = "all"
            THEN \E confirm \in BOOLEAN :
                    IF confirm THEN Return(<<>>) ELSE UNCHANGED reviewVars
          ELSE IF input.kind = "invalid" THEN UNCHANGED reviewVars
          ELSE LET remaining == RemoveIndices(current_links, indices_to_remove(input))
               IN  IF remaining # current_links
                     THEN /\ current_links' = remaining
                          /\ review_page' = 0
                          /\ UNCHANGED <<rpc, returned_links>>
                     ELSE UNCHANGED reviewVars
    /\ UNCHANGED <<crawlVars, dbVars, groupVars, navVars, srvVars, embedVars, validateVars, toolVars, dedupVars, expandVars, generateVars>>

\* cli.py:172-219  [s]: a selector that raises or matches nothing changes
\* nothing.
SearchElements ==
    /\ rpc = "prompt"
    /\ \E elements \in Selections :
          LET new_links == NewLinks(elements, DocsBase)
          IN  current_links' = current_links \o UniqueNewLinks(current_links, new_links)
    /\ UNCHANGED <<review_page, rpc, returned_links>>
    /\ UNCHANGED <<crawlVars, dbVars, groupVars, navVars, srvVars, embedVars, validateVars, toolVars, dedupVars, expandVars, generateVars>>

\* cli.py:221-225  [a]
ShowAll ==
    /\ rpc = "prompt"
    /\ UNCHANGED reviewVars
    /\ UNCHANGED <<crawlVars, dbVars, groupVars, navVars, srvVars, embedVars, validateVars, toolVars, dedupVars, expandVars, generateVars>>

\* cli.py:227-230  [c] with the confirmation
Cancel ==
    /\ rpc = "prompt"
    /\ \E confirm \in BOOLEAN :
          IF confirm THEN Return(<<>>) ELSE UNCHANGED reviewVars
    /\ UNCHANGED <<crawlVars, dbVars, groupVars, navVars, srvVars, embedVars, validateVars, toolVars, dedupVars, expandVars, generateVars>>


\* ========================================================= specifications

\* crawl_pages is called with a configuration and a list of links. click
\* takes any integer for --max-retries (cli.py:413-418); 0 stands for the
\* values for which range(max_retries) is empty.
InitCrawl ==
    /\ max_retries \in 0..MaxRetriesCap
    /\ links \in {[k \in 1..n |-> k] : n \in 0..MaxLinks}
    /\ cpc = "loop"
    /\ i = 0
    /\ attempt = 0
    /\ pages = <<>>
    /\ fetched = <<>>
    /\ log = <<>>
    \* the other components are not run
    /\ db = EmptyDb
    /\ last = NoCall
    /\ proc_pages = <<>>
    /\ gpc = "off"
    /\ response = NoResponse
    /\ groups_data = <<>>
    /\ content_groups = <<>>
    /\ proc_raised = "none"
    /\ nav_base = DocsBase
    /\ nav_html = [dialect |-> "none", anchors |-> <<>>]
    /\ use_browser = FALSE
    /\ npc = "off"
    /\ nav_tier = "none"
    /\ nav_links = <<>>
    /\ nav_result = <<>>
    /\ nav_raised = "none"
    /\ nav_response = NoAiResponse
    /\ vdb = LegacyDb
    /\ tool_call = NoToolCall
    /\ acc_call = NoAccessorCall
    /\ gen = NoGenerator
    /\ edb = EmptyVecDb
    /\ embedding = NoEmbedding
    /\ emb_raised = "none"
    /\ name_arg = <<>>
    /\ vpc = "off"
    /\ name_valid = FALSE
    /\ tool_db = [schema |-> FALSE, groups |-> <<>>]
    /\ on_duplicate = "replace"
    /\ tpc = "off"
    /\ tools = <<>>
    /\ tool_result = NoInvocation
    /\ dd_pages = <<>>
    /\ dpc = "off"
    /\ unique_pages = <<>>
    /\ tree = <<>>
    /\ expanders = {}
    /\ epc = "off"
    /\ iteration = 0
    /\ collapsed_items = <<>>
    /\ item_pos = 0
    /\ expanded_count = 0
    /\ verified = FALSE
    /\ final_clicked = <<>>
    /\ run_groups = <<>>
    /\ run_stored = 0
    /\ run_result = "off"
    /\ db_before = EmptyDb
    /\ current_links = <<>>
    /\ review_page = 0
    /\ rpc = "off"
    /\ returned_links = <<>>

NextCrawl ==
    \/ crawl_pages_next
    \/ wrapper_attempt
    \/ wrapper_sleep
    \/ crawl_pages_rate_limit

SpecCrawl == InitCrawl /\ [][NextCrawl]_vars

\* A DatabaseManager has been constructed on a new path: nothing is created
\* before initialize_schema runs.
InitDb ==
    /\ db = EmptyDb
    /\ last = NoCall
    \* the other components are not run
    /\ max_retries = 0
    /\ links = <<>>
    /\ cpc = "off"
    /\ i = 0
    /\ attempt = 0
    /\ pages = <<>>
    /\ fetched = <<>>
    /\ log = <<>>
    /\ proc_pages = <<>>
    /\ gpc = "off"
    /\ response = NoResponse
    /\ groups_data = <<>>
    /\ content_groups = <<>>
    /\ proc_raised = "none"
    /\ nav_base = DocsBase
    /\ nav_html = [dialect |-> "none", anchors |-> <<>>]
    /\ use_browser = FALSE
    /\ npc = "off"
    /\ nav_tier = "none"
    /\ nav_links = <<>>
    /\ nav_result = <<>>
    /\ nav_raised = "none"
    /\ nav_response = NoAiResponse
    /\ vdb = LegacyDb
    /\ tool_call = NoToolCall
    /\ acc_call = NoAccessorCall
    /\ gen = NoGenerator
    /\ edb = EmptyVecDb
    /\ embedding = NoEmbedding
    /\ emb_raised = "none"
    /\ name_arg = <<>>
    /\ vpc = "off"
    /\ name_valid = FALSE
    /\ tool_db = [schema |-> FALSE, groups |-> <<>>]
    /\ on_duplicate = "replace"
    /\ tpc = "off"
    /\ tools = <<>>
    /\ tool_result = NoInvocation
    /\ dd_pages = <<>>
    /\ dpc = "off"
    /\ unique_pages = <<>>
    /\ tree = <<>>
    /\ expanders = {}
    /\ epc = "off"
    /\ iteration = 0
    /\ collapsed_items = <<>>
    /\ item_pos = 0
    /\ expanded_count = 0
    /\ verified = FALSE
    /\ final_clicked = <<>>
    /\ run_groups = <<>>
    /\ run_stored = 0
    /\ run_result = "off"
    /\ db_before = EmptyDb
    /\ current_links = <<>>
    /\ review_page = 0
    /\ rpc = "off"
    /\ returned_links = <<>>

NextDb ==
    \/ initialize_schema
    \/ StoreContentGroup
    \/ GetAllContentGroups
    \/ GetContentGroupByName

SpecDb == InitDb /\ [][NextDb]_vars

InitGroup ==
    /\ proc_pages \in PageInputs
    /\ gpc = "input"
    /\ response = NoResponse
    /\ groups_data = <<>>
    /\ content_groups = <<>>
    /\ proc_raised = "none"
    \* the other components are not run
    /\ max_retries = 0
    /\ links = <<>>
    /\ cpc = "off"
    /\ i = 0
    /\ attempt = 0
    /\ pages = <<>>
    /\ fetched = <<>>
    /\ log = <<>>
    /\ db = EmptyDb
    /\ last = NoCall
    /\ nav_base = DocsBase
    /\ nav_html = [dialect |-> "none", anchors |-> <<>>]
    /\ use_browser = FALSE
    /\ npc = "off"
    /\ nav_tier = "none"
    /\ nav_links = <<>>
    /\ nav_result = <<>>
    /\ nav_raised = "none"
    /\ nav_response = NoAiResponse
    /\ vdb = LegacyDb
    /\ tool_call = NoToolCall
    /\ acc_call = NoAccessorCall
    /\ gen = NoGenerator
    /\ edb = EmptyVecDb
    /\ embedding = NoEmbedding
    /\ emb_raised = "none"
    /\ name_arg = <<>>
    /\ vpc = "off"
    /\ name_valid = FALSE
    /\ tool_db = [schema |-> FALSE, groups |-> <<>>]
    /\ on_duplicate = "replace"
    /\ tpc = "off"
    /\ tools = <<>>
    /\ tool_result = NoInvocation
    /\ dd_pages = <<>>
    /\ dpc = "off"
    /\ unique_pages = <<>>
    /\ tree = <<>>
    /\ expanders = {}
    /\ epc = "off"
    /\ iteration = 0
    /\ collapsed_items = <<>>
    /\ item_pos = 0
    /\ expanded_count = 0
    /\ verified = FALSE
    /\ final_clicked = <<>>
    /\ run_groups = <<>>
    /\ run_stored = 0
    /\ run_result = "off"
    /\ db_before = EmptyDb
    /\ current_links = <<>>
    /\ review_page = 0
    /\ rpc = "off"
    /\ returned_links = <<>>

NextGroup ==
    \/ FallbackGrouping
    \/ ProcessContent

SpecGroup == InitGroup /\ [][NextGroup]_vars

\* extract_navigation_links(html_content, base_url, use_browser). The
\* rendered page the browser tier sees has the anchors of html_content.
InitNav ==
    /\ nav_base \in BaseUrls
    /\ nav_html \in HtmlInputs
    /\ use_browser \in BOOLEAN
    /\ npc = "start"
    /\ nav_tier = "none"
    /\ nav_links = <<>>
    /\ nav_result = <<>>
    /\ nav_raised = "none"
    /\ nav_response = NoAiResponse
    \* the other components are not run
    /\ max_retries = 0
    /\ links = <<>>
    /\ cpc = "off"
    /\ i = 0
    /\ attempt = 0
    /\ pages = <<>>
    /\ fetched = <<>>
    /\ log = <<>>
    /\ db = EmptyDb
    /\ last = NoCall
    /\ proc_pages = <<>>
    /\ gpc = "off"
    /\ response = NoResponse
    /\ groups_data = <<>>
    /\ content_groups = <<>>
    /\ proc_raised = "none"
    /\ vdb = LegacyDb
    /\ tool_call = NoToolCall
    /\ acc_call = NoAccessorCall
    /\ gen = NoGenerator
    /\ edb = EmptyVecDb
    /\ embedding = NoEmbedding
    /\ emb_raised = "none"
    /\ name_arg = <<>>
    /\ vpc = "off"
    /\ name_valid = FALSE
    /\ tool_db = [schema |-> FALSE, groups |-> <<>>]
    /\ on_duplicate = "replace"
    /\ tpc = "off"
    /\ tools = <<>>
    /\ tool_result = NoInvocation
    /\ dd_pages = <<>>
    /\ dpc = "off"
    /\ unique_pages = <<>>
    /\ tree = <<>>
    /\ expanders = {}
    /\ epc = "off"
    /\ iteration = 0
    /\ collapsed_items = <<>>
    /\ item_pos = 0
    /\ expanded_count = 0
    /\ verified = FALSE
    /\ final_clicked = <<>>
    /\ run_groups = <<>>
    /\ run_stored = 0
    /\ run_result = "off"
    /\ db_before = EmptyDb
    /\ current_links = <<>>
    /\ review_page = 0
    /\ rpc = "off"
    /\ returned_links = <<>>

NextNav ==
    \/ ExtractMicrosoftLearn
    \/ ExtractNavigationSmart
    \/ ExtractFromHtmlSmart

SpecNav == InitNav /\ [][NextNav]_vars

\* A server over one database file serving a request: a tool call or a
\* direct call of an accessor.
InitSearch ==
    /\ vdb \in VectorDbs
    /\ tool_call = NoToolCall
    /\ acc_call = NoAccessorCall
    \* the other components are not run
    /\ max_retries = 0
    /\ links = <<>>
    /\ cpc = "off"
    /\ i = 0
    /\ attempt = 0
    /\ pages = <<>>
    /\ fetched = <<>>
    /\ log = <<>>
    /\ db = EmptyDb
    /\ last = NoCall
    /\ proc_pages = <<>>
    /\ gpc = "off"
    /\ response = NoResponse
    /\ groups_data = <<>>
    /\ content_groups = <<>>
    /\ proc_raised = "none"
    /\ nav_base = DocsBase
    /\ nav_html = [dialect |-> "none", anchors |-> <<>>]
    /\ use_browser = FALSE
    /\ npc = "off"
    /\ nav_tier = "none"
    /\ nav_links = <<>>
    /\ nav_result = <<>>
    /\ nav_raised = "none"
    /\ nav_response = NoAiResponse
    /\ gen = NoGenerator
    /\ edb = EmptyVecDb
    /\ embedding = NoEmbedding
    /\ emb_raised = "none"
    /\ name_arg = <<>>
    /\ vpc = "off"
    /\ name_valid = FALSE
    /\ tool_db = [schema |-> FALSE, groups |-> <<>>]
    /\ on_duplicate = "replace"
    /\ tpc = "off"
    /\ tools = <<>>
    /\ tool_result = NoInvocation
    /\ dd_pages = <<>>
    /\ dpc = "off"
    /\ unique_pages = <<>>
    /\ tree = <<>>
    /\ expanders = {}
    /\ epc = "off"
    /\ iteration = 0
    /\ collapsed_items = <<>>
    /\ item_pos = 0
    /\ expanded_count = 0
    /\ verified = FALSE
    /\ final_clicked = <<>>
    /\ run_groups = <<>>
    /\ run_stored = 0
    /\ run_result = "off"
    /\ db_before = EmptyDb
    /\ current_links = <<>>
    /\ review_page = 0
    /\ rpc = "off"
    /\ returned_links = <<>>

NextSearch ==
    \/ SearchDoc
    \/ LoadDoc
    \/ ListDoc
    \/ GetProjectEmbeddingConfig
    \/ ListAllDocuments
    \/ GetDocumentBySlug
    \/ GetSimilarSlugs
    \/ SearchSimilarDocuments

SpecSearch == InitSearch /\ [][NextSearch]_vars

\* An embedding generator built from a configuration, over a fresh file.
InitEmbed ==
    /\ gen \in {EmbeddingGenerator(c) : c \in EmbeddingConfigs}
    /\ edb = EmptyVecDb
    /\ embedding = NoEmbedding
    /\ emb_raised = "none"
    \* the other components are not run
    /\ max_retries = 0
    /\ links = <<>>
    /\ cpc = "off"
    /\ i = 0
    /\ attempt = 0
    /\ pages = <<>>
    /\ fetched = <<>>
    /\ log = <<>>
    /\ db = EmptyDb
    /\ last = NoCall
    /\ proc_pages = <<>>
    /\ gpc = "off"
    /\ response = NoResponse
    /\ groups_data = <<>>
    /\ content_groups = <<>>
    /\ proc_raised = "none"
    /\ nav_base = DocsBase
    /\ nav_html = [dialect |-> "none", anchors |-> <<>>]
    /\ use_browser = FALSE
    /\ npc = "off"
    /\ nav_tier = "none"
    /\ nav_links = <<>>
    /\ nav_result = <<>>
    /\ nav_raised = "none"
    /\ nav_response = NoAiResponse
    /\ vdb = LegacyDb
    /\ tool_call = NoToolCall
    /\ acc_call = NoAccessorCall
    /\ name_arg = <<>>
    /\ vpc = "off"
    /\ name_valid = FALSE
    /\ tool_db = [schema |-> FALSE, groups |-> <<>>]
    /\ on_duplicate = "replace"
    /\ tpc = "off"
    /\ tools = <<>>
    /\ tool_result = NoInvocation
    /\ dd_pages = <<>>
    /\ dpc = "off"
    /\ unique_pages = <<>>
    /\ tree = <<>>
    /\ expanders = {}
    /\ epc = "off"
    /\ iteration = 0
    /\ collapsed_items = <<>>
    /\ item_pos = 0
    /\ expanded_count = 0
    /\ verified = FALSE
    /\ final_clicked = <<>>
    /\ run_groups = <<>>
    /\ run_stored = 0
    /\ run_result = "off"
    /\ db_before = EmptyDb
    /\ current_links = <<>>
    /\ review_page = 0
    /\ rpc = "off"
    /\ returned_links = <<>>

NextEmbed ==
    \/ InitializeVectorSchema
    \/ GenerateEmbedding
    \/ StoreDocumentEmbedding
    \/ StoreSectionEmbedding

SpecEmbed == InitEmbed /\ [][NextEmbed]_vars

\* generate is called with a PROJECT_NAME argument.
InitValidate ==
    /\ name_arg \in NameInputs
    /\ vpc = "input"
    /\ name_valid = FALSE
    \* the other components are not run
    /\ max_retries = 0
    /\ links = <<>>
    /\ cpc = "off"
    /\ i = 0
    /\ attempt = 0
    /\ pages = <<>>
    /\ fetched = <<>>
    /\ log = <<>>
    /\ db = EmptyDb
    /\ last = NoCall
    /\ proc_pages = <<>>
    /\ gpc = "off"
    /\ response = NoResponse
    /\ groups_data = <<>>
    /\ content_groups = <<>>
    /\ proc_raised = "none"
    /\ nav_base = DocsBase
    /\ nav_html = [dialect |-> "none", anchors |-> <<>>]
    /\ use_browser = FALSE
    /\ npc = "off"
    /\ nav_tier = "none"
    /\ nav_links = <<>>
    /\ nav_result = <<>>
    /\ nav_raised = "none"
    /\ nav_response = NoAiResponse
    /\ vdb = LegacyDb
    /\ tool_call = NoToolCall
    /\ acc_call = NoAccessorCall
    /\ gen = NoGenerator
    /\ edb = EmptyVecDb
    /\ embedding = NoEmbedding
    /\ emb_raised = "none"
    /\ tool_db = [schema |-> FALSE, groups |-> <<>>]
    /\ on_duplicate = "replace"
    /\ tpc = "off"
    /\ tools = <<>>
    /\ tool_result = NoInvocation
    /\ dd_pages = <<>>
    /\ dpc = "off"
    /\ unique_pages = <<>>
    /\ tree = <<>>
    /\ expanders = {}
    /\ epc = "off"
    /\ iteration = 0
    /\ collapsed_items = <<>>
    /\ item_pos = 0
    /\ expanded_count = 0
    /\ verified = FALSE
    /\ final_clicked = <<>>
    /\ run_groups = <<>>
    /\ run_stored = 0
    /\ run_result = "off"
    /\ db_before = EmptyDb
    /\ current_links = <<>>
    /\ review_page = 0
    /\ rpc = "off"
    /\ returned_links = <<>>

NextValidate ==
    \/ ValidateProjectName

SpecValidate == InitValidate /\ [][NextValidate]_vars

\* create_mcp_server is called for a project of a database file.
InitTools ==
    /\ tool_db \in ToolDbs
    /\ on_duplicate \in DuplicatePolicies
    /\ tpc = "start"
    /\ tools = <<>>
    /\ tool_result = NoInvocation
    \* the other components are not run
    /\ max_retries = 0
    /\ links = <<>>
    /\ cpc = "off"
    /\ i = 0
    /\ attempt = 0
    /\ pages = <<>>
    /\ fetched = <<>>
    /\ log = <<>>
    /\ db = EmptyDb
    /\ last = NoCall
    /\ proc_pages = <<>>
    /\ gpc = "off"
    /\ response = NoResponse
    /\ groups_data = <<>>
    /\ content_groups = <<>>
    /\ proc_raised = "none"
    /\ nav_base = DocsBase
    /\ nav_html = [dialect |-> "none", anchors |-> <<>>]
    /\ use_browser = FALSE
    /\ npc = "off"
    /\ nav_tier = "none"
    /\ nav_links = <<>>
    /\ nav_result = <<>>
    /\ nav_raised = "none"
    /\ nav_response = NoAiResponse
    /\ vdb = LegacyDb
    /\ tool_call = NoToolCall
    /\ acc_call = NoAccessorCall
    /\ gen = NoGenerator
    /\ edb = EmptyVecDb
    /\ embedding = NoEmbedding
    /\ emb_raised = "none"
    /\ name_arg = <<>>
    /\ vpc = "off"
    /\ name_valid = FALSE
    /\ dd_pages = <<>>
    /\ dpc = "off"
    /\ unique_pages = <<>>
    /\ tree = <<>>
    /\ expanders = {}
    /\ epc = "off"
    /\ iteration = 0
    /\ collapsed_items = <<>>
    /\ item_pos = 0
    /\ expanded_count = 0
    /\ verified = FALSE
    /\ final_clicked = <<>>
    /\ run_groups = <<>>
    /\ run_stored = 0
    /\ run_result = "off"
    /\ db_before = EmptyDb
    /\ current_links = <<>>
    /\ review_page = 0
    /\ rpc = "off"
    /\ returned_links = <<>>

NextTools ==
    \/ CreateMcpServer
    \/ InvokeGroupTool

SpecTools == InitTools /\ [][NextTools]_vars

\* _deduplicate_content_with_context is called with the pages of a group.
InitDedup ==
    /\ dd_pages \in DedupInputs
    /\ dpc = "input"
    /\ unique_pages = <<>>
    \* the other components are not run
    /\ max_retries = 0
    /\ links = <<>>
    /\ cpc = "off"
    /\ i = 0
    /\ attempt = 0
    /\ pages = <<>>
    /\ fetched = <<>>
    /\ log = <<>>
    /\ db = EmptyDb
    /\ last = NoCall
    /\ proc_pages = <<>>
    /\ gpc = "off"
    /\ response = NoResponse
    /\ groups_data = <<>>
    /\ content_groups = <<>>
    /\ proc_raised = "none"
    /\ nav_base = DocsBase
    /\ nav_html = [dialect |-> "none", anchors |-> <<>>]
    /\ use_browser = FALSE
    /\ npc = "off"
    /\ nav_tier = "none"
    /\ nav_links = <<>>
    /\ nav_result = <<>>
    /\ nav_raised = "none"
    /\ nav_response = NoAiResponse
    /\ vdb = LegacyDb
    /\ tool_call = NoToolCall
    /\ acc_call = NoAccessorCall
    /\ gen = NoGenerator
    /\ edb = EmptyVecDb
    /\ embedding = NoEmbedding
    /\ emb_raised = "none"
    /\ name_arg = <<>>
    /\ vpc = "off"
    /\ name_valid = FALSE
    /\ tool_db = [schema |-> FALSE, groups |-> <<>>]
    /\ on_duplicate = "replace"
    /\ tpc = "off"
    /\ tools = <<>>
    /\ tool_result = NoInvocation
    /\ tree = <<>>
    /\ expanders = {}
    /\ epc = "off"
    /\ iteration = 0
    /\ collapsed_items = <<>>
    /\ item_pos = 0
    /\ expanded_count = 0
    /\ verified = FALSE
    /\ final_clicked = <<>>
    /\ run_groups = <<>>
    /\ run_stored = 0
    /\ run_result = "off"
    /\ db_before = EmptyDb
    /\ current_links = <<>>
    /\ review_page = 0
    /\ rpc = "off"
    /\ returned_links = <<>>

NextDedup ==
    \/ DeduplicateContent

SpecDedup == InitDedup /\ [][NextDedup]_vars

\* _expand_all_tree_sections is called on a page whose tree has rendered.
InitExpand ==
    /\ tree \in [TreeNodes -> ItemStates]
    /\ expanders \in SUBSET TreeNodes
    /\ epc = "while"
    /\ iteration = 0
    /\ collapsed_items = <<>>
    /\ item_pos = 0
    /\ expanded_count = 0
    /\ verified = FALSE
    /\ final_clicked = <<>>
    \* the other components are not run
    /\ max_retries = 0
    /\ links = <<>>
    /\ cpc = "off"
    /\ i = 0
    /\ attempt = 0
    /\ pages = <<>>
    /\ fetched = <<>>
    /\ log = <<>>
    /\ db = EmptyDb
    /\ last = NoCall
    /\ proc_pages = <<>>
    /\ gpc = "off"
    /\ response = NoResponse
    /\ groups_data = <<>>
    /\ content_groups = <<>>
    /\ proc_raised = "none"
    /\ nav_base = DocsBase
    /\ nav_html = [dialect |-> "none", anchors |-> <<>>]
    /\ use_browser = FALSE
    /\ npc = "off"
    /\ nav_tier = "none"
    /\ nav_links = <<>>
    /\ nav_result = <<>>
    /\ nav_raised = "none"
    /\ nav_response = NoAiResponse
    /\ vdb = LegacyDb
    /\ tool_call = NoToolCall
    /\ acc_call = NoAccessorCall
    /\ gen = NoGenerator
    /\ edb = EmptyVecDb
    /\ embedding = NoEmbedding
    /\ emb_raised = "none"
    /\ name_arg = <<>>
    /\ vpc = "off"
    /\ name_valid = FALSE
    /\ tool_db = [schema |-> FALSE, groups |-> <<>>]
    /\ on_duplicate = "replace"
    /\ tpc = "off"
    /\ tools = <<>>
    /\ tool_result = NoInvocation
    /\ dd_pages = <<>>
    /\ dpc = "off"
    /\ unique_pages = <<>>
    /\ run_groups = <<>>
    /\ run_stored = 0
    /\ run_result = "off"
    /\ db_before = EmptyDb
    /\ current_links = <<>>
    /\ review_page = 0
    /\ rpc = "off"
    /\ returned_links = <<>>

NextExpand ==
    \/ QueryCollapsed
    \/ IterationCapHit
    \/ ExpandItem
    \/ EndPass
    \/ FinalCheck
    \/ FinalClick
    \/ EndFinal

SpecExpand == InitExpand /\ [][NextExpand]_vars

\* The coroutine is awaited to its end and every Playwright call returns or
\* raises within its timeout: a step that is possible is taken.
SpecExpandLive == SpecExpand /\ WF_vars(NextExpand)

\* A run of generate_mcp_server_async that has reached step 4.
InitGenerate ==
    /\ run_groups \in RunGroupLists
    /\ run_stored = 0
    /\ run_result = "running"
    /\ db \in RunDbs
    /\ db_before = db
    /\ last = NoCall
    \* the other components are not run
    /\ max_retries = 0
    /\ links = <<>>
    /\ cpc = "off"
    /\ i = 0
    /\ attempt = 0
    /\ pages = <<>>
    /\ fetched = <<>>
    /\ log = <<>>
    /\ proc_pages = <<>>
    /\ gpc = "off"
    /\ response = NoResponse
    /\ groups_data = <<>>
    /\ content_groups = <<>>
    /\ proc_raised = "none"
    /\ nav_base = DocsBase
    /\ nav_html = [dialect |-> "none", anchors |-> <<>>]
    /\ use_browser = FALSE
    /\ npc = "off"
    /\ nav_tier = "none"
    /\ nav_links = <<>>
    /\ nav_result = <<>>
    /\ nav_raised = "none"
    /\ nav_response = NoAiResponse
    /\ vdb = LegacyDb
    /\ tool_call = NoToolCall
    /\ acc_call = NoAccessorCall
    /\ gen = NoGenerator
    /\ edb = EmptyVecDb
    /\ embedding = NoEmbedding
    /\ emb_raised = "none"
    /\ name_arg = <<>>
    /\ vpc = "off"
    /\ name_valid = FALSE
    /\ tool_db = [schema |-> FALSE, groups |-> <<>>]
    /\ on_duplicate = "replace"
    /\ tpc = "off"
    /\ tools = <<>>
    /\ tool_result = NoInvocation
    /\ dd_pages = <<>>
    /\ dpc = "off"
    /\ unique_pages = <<>>
    /\ tree = <<>>
    /\ expanders = {}
    /\ epc = "off"
    /\ iteration = 0
    /\ collapsed_items = <<>>
    /\ item_pos = 0
    /\ expanded_count = 0
    /\ verified = FALSE
    /\ final_clicked = <<>>
    /\ current_links = <<>>
    /\ review_page = 0
    /\ rpc = "off"
    /\ returned_links = <<>>

NextGenerate ==
    \/ StoreRunGroup

SpecGenerate == InitGenerate /\ [][NextGenerate]_vars

\* _verify_and_filter_links is called with the extracted links.
InitReview ==
    /\ current_links \in ReviewInputs
    /\ review_page = 0
    /\ rpc = "prompt"
    /\ returned_links = <<>>
    \* the other components are not run
    /\ max_retries = 0
    /\ links = <<>>
    /\ cpc = "off"
    /\ i = 0
    /\ attempt = 0
    /\ pages = <<>>
    /\ fetched = <<>>
    /\ log = <<>>
    /\ db = EmptyDb
    /\ last = NoCall
    /\ proc_pages = <<>>
    /\ gpc = "off"
    /\ response = NoResponse
    /\ groups_data = <<>>
    /\ content_groups = <<>>
    /\ proc_raised = "none"
    /\ nav_base = DocsBase
    /\ nav_html = [dialect |-> "none", anchors |-> <<>>]
    /\ use_browser = FALSE
    /\ npc = "off"
    /\ nav_tier = "none"
    /\ nav_links = <<>>
    /\ nav_result = <<>>
    /\ nav_raised = "none"
    /\ nav_response = NoAiResponse
    /\ vdb = LegacyDb
    /\ tool_call = NoToolCall
    /\ acc_call = NoAccessorCall
    /\ gen = NoGenerator
    /\ edb = EmptyVecDb
    /\ embedding = NoEmbedding
    /\ emb_raised = "none"
    /\ name_arg = <<>>
    /\ vpc = "off"
    /\ name_valid = FALSE
    /\ tool_db = [schema |-> FALSE, groups |-> <<>>]
    /\ on_duplicate = "replace"
    /\ tpc = "off"
    /\ tools = <<>>
    /\ tool_result = NoInvocation
    /\ dd_pages = <<>>
    /\ dpc = "off"
    /\ unique_pages = <<>>
    /\ tree = <<>>
    /\ expanders = {}
    /\ epc = "off"
    /\ iteration = 0
    /\ collapsed_items = <<>>
    /\ item_pos = 0
    /\ expanded_count = 0
    /\ verified = FALSE
    /\ final_clicked = <<>>
    /\ run_groups = <<>>
    /\ run_stored = 0
    /\ run_result = "off"
    /\ db_before = EmptyDb

NextReview ==
    \/ Proceed
    \/ NextPage
    \/ PreviousPage
    \/ RemoveLinks
    \/ SearchElements
    \/ ShowAll
    \/ Cancel

SpecReview == InitReview /\ [][NextReview]_vars


\* ================================================================= claims

\* ---- crawler

\* The attempts and backoff sleeps of link j, in the order they happened.
LinkEvents(j) ==
    SelectSeq(log, LAMBDA e : e.link = j /\ e.ev \in {"attempt", "backoff"})

Attempts(j) == SelectSeq(log, LAMBDA e : e.link = j /\ e.ev = "attempt")

Failures(j) == Len(SelectSeq(Attempts(j), LAMBDA e : e.out # "ok"))

BackoffSeconds(j) ==
    LET sl == SelectSeq(log, LAMBDA e : e.link = j /\ e.ev = "backoff")
    IN  [k \in 1..Len(sl) |-> sl[k].n]

\* k failed attempts, each followed by a sleep of 1, 2, 4, ... seconds, then
\* the successful attempt.
FailThenSucceed(ev, k) ==
    /\ Len(ev) = 2 * k + 1
    /\ \A a \in 0..(k - 1) :
          /\ ev[2 * a + 1].ev = "attempt"
          /\ ev[2 * a + 1].n = a
          /\ ev[2 * a + 1].out # "ok"
          /\ ev[2 * a + 2].ev = "backoff"
          /\ ev[2 * a + 2].n = 2 ^ a
    /\ ev[2 * k + 1].ev = "attempt"
    /\ ev[2 * k + 1].n = k
    /\ ev[2 * k + 1].out = "ok"

\* C1: for max_retries >= 1, a fetch whose first k < max_retries attempts
\* raise and whose attempt k+1 succeeds makes the wrapper return the
\* successful result after exactly the sleeps 1, 2, ..., 2^(k-1), one after
\* each failed attempt, 2^k - 1 seconds in all.
C1_RetryThenSuccess ==
    \A j \in 1..Len(fetched) :
        (max_retries >= 1 /\ \E e \in Range(Attempts(j)) : e.out = "ok")
        => /\ fetched[j] = [kind |-> "return", val |-> "html"]
           /\ Failures(j) < max_retries
           /\ FailThenSucceed(LinkEvents(j), Failures(j))
           /\ SumSeq(BackoffSeconds(j)) = 2 ^ Failures(j) - 1

\* a link that succeeded on its third attempt, after sleeps of 1 and 2
C1_Witness ==
    \E j \in 1..Len(fetched) :
        /\ fetched[j].val = "html"
        /\ Failures(j) = 2
        /\ BackoffSeconds(j) = <<1, 2>>

\* C2: when every attempt of a fetch fails, the wrapper makes exactly
\* max_retries attempts, sleeps only between attempts, and raises the last
\* error; it never returns without a successful attempt.
C2_ExhaustedRetriesRaise ==
    \A j \in 1..Len(fetched) :
        LET att == Attempts(j)
            ev == LinkEvents(j)
        IN  /\ (\A e \in Range(att) : e.out # "ok")
               => /\ Len(att) = max_retries
                  /\ fetched[j].kind = "raise"
                  /\ Len(att) > 0
                  /\ fetched[j].val = att[Len(att)].out
                  /\ ev[Len(ev)].ev = "attempt"
                  /\ \A k \in 1..(Len(ev) - 1) :
                        ev[k].ev = "backoff" => ev[k + 1].ev = "attempt"
            /\ fetched[j].kind = "return"
               => \E e \in Range(att) : e.out = "ok"

\* C3: crawl_pages never aborts; it takes every link and returns exactly the
\* pages of the links whose fetch succeeded, in the order of the links.
C3_FailedLinksSkipped ==
    /\ cpc # "aborted"
    /\ cpc = "done"
       => /\ Len(fetched) = Len(links)
          /\ pages = SelectSeq(links, LAMBDA l : fetched[l].val = "html")

\* C4: between the fetch of a link and the fetch of the next link there is a
\* rate-limit sleep, whatever the earlier fetch's outcome, and there is none
\* after the last link.
C4_RateLimitBetweenFetches ==
    /\ \A a \in 1..Len(log), b \in 1..Len(log) :
          (/\ a < b
           /\ log[a].ev = "attempt"
           /\ log[b].ev = "attempt"
           /\ log[b].link = log[a].link + 1)
          => \E c \in a..b : log[c].ev = "rate"
    /\ \A a \in 1..Len(log) : log[a].ev = "rate" => log[a].link < Len(links)

\* ---- database

HasGroup(d, project_name, group_name) ==
    /\ ProjectRows(d, project_name) # {}
    /\ GroupRows(d, ProjectId(d, project_name), group_name) # {}

\* C5: a second store_content_group with the same project and group name
\* succeeds and leaves exactly one row for that name, holding the second
\* call's summary and pages (no I/O error occurring).
C5_StoreTwiceReplaces ==
    [][(/\ last'.op = "store_content_group"
        /\ HasGroup(db, last'.project, last'.group.name)
        /\ last'.raised # "OperationalError")
       => /\ last'.raised = "none"
          /\ Cardinality(GroupRows(db', ProjectId(db', last'.project),
                                   last'.group.name)) = 1
          /\ get_content_group_by_name(db', last'.project, last'.group.name).result
               = <<last'.group>>]_vars

\* The group row with the returned id and all of its page rows are stored.
StoredAs(d, call) ==
    LET content_group_id == call.result[1]
        rows == {r \in Range(d.content_groups) : r.id = content_group_id}
        prows == SelectSeq(d.pages, LAMBDA r : r.content_group_id = content_group_id)
    IN  /\ Cardinality(rows) = 1
        /\ \A r \in rows :
              /\ r.name = call.group.name
              /\ r.summary_markdown = call.group.summary_markdown
              /\ \E pr \in ProjectRows(d, call.project) : pr.id = r.project_id
        /\ [k \in 1..Len(prows) |-> prows[k].page] = call.group.pages

\* C6: store_content_group is atomic: when it raises, the database is as it
\* was before the call; when it returns, the group row and all its page
\* rows are there.
C6_StoreAtomic ==
    [][last'.op = "store_content_group"
       => IF last'.raised # "none" THEN db' = db ELSE StoredAs(db', last')]_vars

\* a store that failed on a page INSERT, after the project and group rows
\* were written in the transaction, and left no row behind
C6_Witness ==
    /\ last.op = "store_content_group"
    /\ last.raised = "OperationalError"
    /\ last.failed_at > 3
    /\ ProjectRows(db, last.project) = {}
    /\ db.schema

AbsentIsNormal(schema_needed) ==
    /\ (/\ last'.op = "get_all_content_groups"
        /\ schema_needed => db.schema
        /\ ProjectRows(db, last'.project) = {})
       => /\ last'.raised = "none"
          /\ last'.ret = "list"
          /\ last'.result = <<>>
          /\ db' = db
    /\ (/\ last'.op = "get_content_group_by_name"
        /\ schema_needed => db.schema
        /\ ~HasGroup(db, last'.project, last'.group.name))
       => /\ last'.raised = "none"
          /\ last'.ret = "None"
          /\ db' = db

Occurrences(index_lists, idx) ==
    SumSeq([g \in 1..Len(index_lists) |->
              Cardinality({k \in 1..Len(index_lists[g]) : index_lists[g][k] = idx})])

IndexLists(groups) == [g \in 1..Len(groups) |-> groups[g].page_indices]

\* C8: the groups of _fallback_grouping partition the page indices: every
\* index 0..n-1 is in exactly one group, once, and no other index occurs.
C8_FallbackPartition ==
    gpc = "fallback_done"
    => /\ \A idx \in 0..(Len(proc_pages) - 1) :
             Occurrences(IndexLists(groups_data), idx) = 1
       /\ \A g \in 1..Len(groups_data) :
             \A k \in 1..Len(groups_data[g].page_indices) :
                groups_data[g].page_indices[k] \in 0..(Len(proc_pages) - 1)

\* several groups, one of them 'general' holding a root page and a page
\* under /general
C8_Witness ==
    /\ gpc = "fallback_done"
    /\ Len(groups_data) >= 3
    /\ \E g \in 1..Len(groups_data) :
          /\ groups_data[g].name = "general"
          /\ Len(groups_data[g].page_indices) = 2

FirstSegments == {GroupKey(proc_pages[k]) : k \in 1..Len(proc_pages)}

\* C9: _fallback_grouping returns at most 10 groups: one group per distinct
\* first path segment ('general' for none) holding the pages of that segment
\* in order, or, when there are more than 10 segments, the single group
\* 'documentation' with all indices 0..n-1.
C9_FallbackAtMostTen ==
    gpc = "fallback_done"
    => /\ Len(groups_data) <= 10
       /\ IF Cardinality(FirstSegments) > 10
            THEN groups_data =
                   <<[name |-> "documentation",
                      page_indices |-> [k \in 1..Len(proc_pages) |-> k - 1]]>>
            ELSE /\ Len(groups_data) = Cardinality(FirstSegments)
                 /\ {groups_data[g].name : g \in 1..Len(groups_data)} = FirstSegments
                 /\ \A g \in 1..Len(groups_data) :
                       LET ix == groups_data[g].page_indices
                       IN  /\ {ix[k] : k \in 1..Len(ix)} =
                                {m \in 0..(Len(proc_pages) - 1) :
                                    GroupKey(proc_pages[m + 1]) = groups_data[g].name}
                           /\ \A k \in 1..(Len(ix) - 1) : ix[k] < ix[k + 1]

\* eleven pages under eleven segments, consolidated into 'documentation'
C9_Witness ==
    /\ gpc = "fallback_done"
    /\ Cardinality(FirstSegments) = 11
    /\ Len(groups_data) = 1
    /\ groups_data[1].name = "documentation"

\* C10: the ContentGroups process_content returns partition the input
\* pages, whatever the grouping model answered.
C10_ProcessContentPartition ==
    gpc = "processed"
    => \A idx \in 0..(Len(proc_pages) - 1) :
          Occurrences([g \in 1..Len(content_groups) |-> content_groups[g].pages], idx) = 1

\* ---------------------------------------------------------------- C11

\* The responses the claim counts as a failure of the grouping model.
ModelFailed == response.kind \in {"raise", "no_array", "bad_json"} \cup MalformedKinds

\* C11: a failure of the grouping model never leaves process_content: when
\* the call raised, or the answer has no parseable JSON array, or the array
\* is malformed, process_content returns the groups of the path-segment
\* fallback, a non-empty list for a non-empty input.
C11_ModelFailureNeverPropagates ==
    (gpc = "processed" /\ ModelFailed)
    => /\ proc_raised = "none"
       /\ LET gdata == _fallback_grouping(proc_pages)
          IN  content_groups = BuildGroups(proc_pages, gdata, Len(gdata))
       /\ (proc_pages # <<>> => content_groups # <<>>)

\* ---------------------------------------------------------------- C12

\* The positions of link_list that hold the first occurrence of their url.
FirstOccurrences(link_list) ==
    {k \in 1..Len(link_list) : \A j \in 1..(k - 1) : link_list[j].url # link_list[k].url}

\* The n-th smallest member of a set of positions.
NthOf(positions, n) ==
    CHOOSE x \in positions : Cardinality({y \in positions : y < x}) = n - 1

\* C12: a list extract_navigation_links returns has no two links with the
\* same url, whichever tier produced it: it is the admitted candidates with
\* the first occurrence of each url kept, in their order.
C12_ResultHasFirstOccurrencesOnly ==
    npc = "done"
    => /\ \A a, b \in 1..Len(nav_result) :
             a # b => nav_result[a].url # nav_result[b].url
       /\ Len(nav_result) = Cardinality(FirstOccurrences(nav_links))
       /\ \A n \in 1..Len(nav_result) :
             nav_result[n] = nav_links[NthOf(FirstOccurrences(nav_links), n)]

\* A sidebar whose first and third anchors resolve to one URL, with another
\* link between them and more after: the third is dropped, the rest stay.
C12_Witness ==
    /\ npc = "done"
    /\ Len(nav_links) >= 4
    /\ nav_links[1].url = nav_links[3].url
    /\ nav_links[1].title # nav_links[3].title
    /\ nav_links[2].url # nav_links[1].url
    /\ Len(nav_result) = Len(nav_links) - 1
    /\ nav_result[1] = nav_links[1]

\* ---------------------------------------------------------------- C13

\* C13: every returned link's resolved URL has the domain of the base URL;
\* a candidate whose URL has another domain, or none, is not admitted.
C13_ResultOnBaseDomain ==
    npc = "done"
    => \A k \in 1..Len(nav_result) : nav_result[k].url.netloc = nav_base.netloc

\* ---------------------------------------------------------------- C14

\* The link's URL is what an href starting with '#' resolves to.
FromHashHref(link) ==
    \E h \in Hrefs : StartsWithHash(h) /\ urljoin(nav_base, h) = link.url

\* C14: whichever routine produced a returned link, the link has a
\* non-empty title, does not come from an href starting with '#', and its
\* URL contains none of the denylisted substrings.
C14_AdmissionFilterUniform ==
    npc = "done"
    => \A k \in 1..Len(nav_result) :
          /\ nav_result[k].title # ""
          /\ ~FromHashHref(nav_result[k])
          /\ ~MatchesDenyPattern(nav_result[k].url)

\* ---------------------------------------------------------------- C15

\* C15: extract_navigation_links never raises: whatever fails in the
\* browser tier, the HTML tier or the AI fallback, it returns a list.
C15_ExtractNeverRaises ==
    npc # "raised" /\ nav_raised = "none"

\* ---------------------------------------------------------------- C16

\* The documents a search with the call's category filter is about.
Searched == SelectSeq(vdb.docs, LAMBDA d : tool_call.category \in {"", d.category})

\* C16: with an embedding generator, the semantic search returns exactly the
\* best matches among all stored documents of the category: every returned
\* document has similarity >= 0.1, the order is non-increasing, there are at
\* most limit (clamped to 1..20) of them and as many as there are matches up
\* to that number, and no document left out is more similar than a returned
\* one, however many documents are stored.
C16_SemanticSearchReturnsBest ==
    (tool_call.tool = "searchDoc" /\ tool_call.generator = "ok"
     /\ tool_call.out.semantic = "returned")
    => LET found == tool_call.out.semantic_results
           clamped == IF tool_call.limit < 1 THEN 1
                      ELSE IF tool_call.limit > 20 THEN 20 ELSE tool_call.limit
           matches == {k \in 1..Len(Searched) : Searched[k].sim >= 10}
       IN  /\ \A k \in 1..Len(found) : found[k].relevance_score >= 10
           /\ \A k \in 1..(Len(found) - 1) :
                 found[k].relevance_score >= found[k + 1].relevance_score
           /\ Len(found) <= clamped
           /\ Len(found) = IF Cardinality(matches) < clamped THEN Cardinality(matches)
                           ELSE clamped
           /\ \A k \in 1..Len(Searched) :
                 (\A n \in 1..Len(found) : found[n].slug # Searched[k].slug)
                 => \A n \in 1..Len(found) : Searched[k].sim <= found[n].relevance_score

\* ---------------------------------------------------------------- C17

\* C17: searchDoc runs the keyword search exactly when there is no embedding
\* generator, or the semantic search raised, or it returned no result; and
\* every result of the keyword search has relevance_score 0.5 and no section
\* matches.
C17_KeywordSearchExactlyAsFallback ==
    (tool_call.tool = "searchDoc" /\ \E k \in 1..Len(tool_call.text) : tool_call.text[k] # " ")
    => /\ tool_call.out.keyword_ran
          <=> \/ tool_call.generator = "none"
              \/ tool_call.out.semantic = "raised"
              \/ tool_call.out.semantic = "returned" /\ tool_call.out.semantic_results = <<>>
       /\ tool_call.out.keyword_ran
          => \A k \in 1..Len(tool_call.out.results) :
                /\ tool_call.out.results[k].relevance_score = 50
                /\ tool_call.out.results[k].section_matches = <<>>

\* The semantic search ran and found nothing above the threshold, and the
\* keyword search that followed found documents.
C17_Witness ==
    /\ tool_call.tool = "searchDoc"
    /\ tool_call.generator = "ok"
    /\ tool_call.out.semantic = "returned"
    /\ tool_call.out.semantic_results = <<>>
    /\ tool_call.out.keyword_ran
    /\ Len(tool_call.out.results) >= 2

\* ---------------------------------------------------------------- C18

\* C18: searchDoc, loadDoc and listDoc never raise; an empty or
\* whitespace-only query (searchDoc) or slug (loadDoc) gives an error object,
\* with zero results, before any embedding is computed or the database is
\* opened.
C18_ToolsNeverRaise ==
    tool_call.tool # "none"
    => /\ tool_call.out.raised = "none"
       /\ (tool_call.tool \in {"searchDoc", "loadDoc"}
           /\ \A k \in 1..Len(tool_call.text) : tool_call.text[k] = " ")
          => /\ tool_call.out.error # ""
             /\ tool_call.out.results = <<>>
             /\ ~tool_call.out.embedded
             /\ ~tool_call.out.db_accessed

\* loadDoc on a legacy database: get_document_by_slug raised and the tool
\* returned an error object.
C18_Witness ==
    /\ tool_call.tool = "loadDoc"
    /\ ~vdb.vec_schema
    /\ tool_call.out.db_accessed
    /\ tool_call.out.error = "Failed to load document"
    /\ tool_call.out.raised = "none"

\* ---------------------------------------------------------------- C19

\* C19: loadDoc for a slug that is not stored returns a not-found response
\* whose suggestions are the stored slugs similar to the requested one, by
\* substring/prefix matching against the stored slugs and titles.
C19_NotFoundSuggestsSimilarSlugs ==
    (tool_call.tool = "loadDoc" /\ tool_call.out.error = "not found")
    => tool_call.out.suggestions
          = get_similar_slugs(vdb, strip(tool_call.text), SlugSuggestions).result

\* ---------------------------------------------------------------- C20

\* C20: on a legacy database without the embedding columns and tables every
\* embedding-aware accessor returns None or an empty list instead of
\* raising.
C20_LegacyAccessorsFailSoft ==
    (acc_call.op # "none" /\ ~vdb.vec_schema)
    => /\ acc_call.out.raised = "none"
       /\ acc_call.out.result = <<>>

\* ---------------------------------------------------------------- C21
\* The project row of a stored document.
ProjectOfDocument(doc) == edb.embedding_config[doc.project_id]

\* C21: every stored embedding vector (of a document, or of a section of a
\* stored document) has the length recorded as embedding_dimension for its
\* project.
C21_VectorLengthIsProjectDimension ==
    /\ \A doc \in edb.document_embeddings :
          doc.embedding.length = ProjectOfDocument(doc).dimension
    /\ \A sec \in edb.section_embeddings :
          \A doc \in edb.document_embeddings :
              doc.slug = sec.document_slug
                  => sec.embedding.length = ProjectOfDocument(doc).dimension

\* ---------------------------------------------------------------- C28
\* C28: referential integrity: every pages row refers to an existing
\* content_groups row, every content_groups and document_embeddings row to
\* an existing projects row, every section_embeddings row to an existing
\* document_embeddings slug.
C28_ReferentialIntegrity ==
    /\ \A k \in 1..Len(db.pages) :
          db.pages[k].content_group_id \in {g.id : g \in Range(db.content_groups)}
    /\ \A k \in 1..Len(db.content_groups) :
          db.content_groups[k].project_id \in {r.id : r \in Range(db.projects)}
    /\ \A doc \in edb.document_embeddings :
          doc.project_id \in {r.id : r \in Range(edb.projects)}
    /\ \A sec \in edb.section_embeddings :
          sec.document_slug \in {doc.slug : doc \in edb.document_embeddings}

\* The rows the base tables can hold are consistent (store_content_group).
C28_BaseTablesConsistent ==
    /\ \A k \in 1..Len(db.pages) :
          db.pages[k].content_group_id \in {g.id : g \in Range(db.content_groups)}
    /\ \A k \in 1..Len(db.content_groups) :
          db.content_groups[k].project_id \in {r.id : r \in Range(db.projects)}

\* The document rows refer to existing projects.
C28_DocumentsHaveProjects ==
    \A doc \in edb.document_embeddings :
        doc.project_id \in {r.id : r \in Range(edb.projects)}

\* ---------------------------------------------------------------- C22
\* C22: validate_project_name accepts a name if and only if it is non-empty
\* and every character is a letter, a digit, a hyphen or an underscore.
C22_AcceptsExactlyClassNames ==
    vpc = "validated"
    => (name_valid <=> /\ name_arg # <<>>
                        /\ \A k \in 1..Len(name_arg) : name_arg[k] \in NameClass)

\* Names without a newline are judged as C22 says.
C22_HoldsWithoutNewline ==
    (vpc = "validated" /\ "\n" \notin Range(name_arg))
    => (name_valid <=> /\ name_arg # <<>>
                        /\ \A k \in 1..Len(name_arg) : name_arg[k] \in NameClass)

\* ---------------------------------------------------------------- C23
\* The tool names of two groups of the project coincide.
NameCollision ==
    \E a, b \in 1..Len(tool_db.groups) :
        /\ a # b
        /\ sanitize_tool_name(tool_db.groups[a].name)
             = sanitize_tool_name(tool_db.groups[b].name)

\* C23: on an initialised database create_mcp_server does not raise and
\* registers searchDoc, loadDoc, listDoc and one distinct tool per content
\* group (g + 3 tools), and the tool of a group returns the summary stored
\* for that group.
C23_OneToolPerGroup ==
    tool_db.schema
    => /\ tpc # "raised"
       /\ tpc = "serving"
          => /\ Len(tools) = Len(tool_db.groups) + 3
             /\ \A k \in 1..3 : tools[k] = SearchTools[k]
             /\ \A k \in 1..Len(tool_db.groups) :
                   \E t \in 1..Len(tools) : tools[t].group_name = tool_db.groups[k].name
       /\ tool_result # NoInvocation
          => tool_result.result = tool_db.groups[tool_result.group].summary_markdown

\* When no two groups of the project share a tool name, C23 holds.
C23_HoldsWithoutCollision ==
    (tool_db.schema /\ ~NameCollision)
    => /\ tpc # "raised"
       /\ tpc = "serving"
          => /\ Len(tools) = Len(tool_db.groups) + 3
             /\ \A k \in 1..Len(tool_db.groups) :
                   \E t \in 1..Len(tools) : tools[t].group_name = tool_db.groups[k].name
       /\ tool_result # NoInvocation
          => tool_result.result = tool_db.groups[tool_result.group].summary_markdown

\* ---------------------------------------------------------------- C24
\* The rule of C24 for the k-th page of the input.
RECURSIVE KeptByRule(_)
KeptByRule(k) ==
    \/ \A j \in 1..(k - 1) :
          KeptByRule(j) => ContentFingerprint(dd_pages[j].content)
                             # ContentFingerprint(dd_pages[k].content)
    \/ \E b \in Range(dd_pages[k].code_blocks) :
          \A j \in 1..(k - 1) : \A c \in Range(dd_pages[j].code_blocks) :
              CodeFingerprint(c) # CodeFingerprint(b)

\* C24: the pages kept are, in the original order, exactly those whose
\* content fingerprint differs from every earlier kept page or which have a
\* code block not met in an earlier page; the first page is always kept.
C24_KeptExactlyNovelPages ==
    dpc = "done"
    => LET kept == SelectSeq([k \in 1..Len(dd_pages) |-> k], KeptByRule)
       IN  /\ Len(unique_pages) = Len(kept)
           /\ \A n \in 1..Len(kept) :
                 /\ unique_pages[n].url = dd_pages[kept[n]].url
                 /\ unique_pages[n].content = dd_pages[kept[n]].content
           /\ dd_pages # <<>> => unique_pages[1].url = dd_pages[1].url

\* A second page repeating the content of the first is kept for its code.
C24_Witness ==
    /\ dpc = "done"
    /\ Len(dd_pages) = 2
    /\ ContentFingerprint(dd_pages[1].content) = ContentFingerprint(dd_pages[2].content)
    /\ dd_pages[1].content # dd_pages[2].content
    /\ Len(unique_pages) = 2

\* A second page repeating content and code of the first is dropped.
C24_WitnessDropped ==
    /\ dpc = "done"
    /\ Len(dd_pages) = 2
    /\ dd_pages[2].code_blocks # <<>>
    /\ Len(unique_pages) = 1

\* ---------------------------------------------------------------- C25
\* The code blocks of the output, by page and position.
KeptBlockPositions ==
    {pos \in (1..Len(unique_pages)) \X (1..MaxKeptCodeBlocks) :
        pos[2] <= Len(unique_pages[pos[1]].code_blocks)}

\* C25: every kept page has at most 10 code blocks and no code-block
\* fingerprint occurs twice in the whole output.
C25_BlocksCappedAndUniqueInGroup ==
    dpc = "done"
    => /\ \A n \in 1..Len(unique_pages) :
             Len(unique_pages[n].code_blocks) <= MaxKeptCodeBlocks
       /\ \A p, q \in KeptBlockPositions :
             p # q => CodeFingerprint(unique_pages[p[1]].code_blocks[p[2]])
                        # CodeFingerprint(unique_pages[q[1]].code_blocks[q[2]])

\* Within one kept page the blocks are capped and pairwise different.
C25_BlocksCappedAndUniqueInPage ==
    dpc = "done"
    => \A n \in 1..Len(unique_pages) :
          LET blocks == unique_pages[n].code_blocks
          IN  /\ Len(blocks) <= MaxKeptCodeBlocks
              /\ \A a, b \in 1..Len(blocks) :
                    a # b => CodeFingerprint(blocks[a]) # CodeFingerprint(blocks[b])

\* A page with more than ten different blocks is cut to ten.
C25_WitnessCap ==
    /\ dpc = "done"
    /\ \E n \in 1..Len(unique_pages) :
          /\ Len(unique_pages[n].code_blocks) = MaxKeptCodeBlocks
          /\ Len(dd_pages[n].code_blocks) > MaxKeptCodeBlocks

\* ---------------------------------------------------------------- C26
\* The links the structural extraction admits on the page.
StructuralLinks ==
    LET sidebar == _find_sidebar(nav_html)
    IN  IF sidebar = <<>> THEN <<>>
        ELSE WalkSidebar(sidebar[1].anchors, nav_base, Len(sidebar[1].anchors))

\* extract_navigation_links has ended on the HTML tier.
HtmlTierEnded == ~use_browser /\ npc \in {"done", "raised"}

AiInvoked == nav_response # NoAiResponse

\* C26: on the HTML tier the AI fallback is invoked whenever the structural
\* extraction yields fewer than 5 links, and never when it yields at least 5.
C26_AiFallbackBelowFiveLinks ==
    HtmlTierEnded
    => /\ Len(StructuralLinks) < MinSidebarLinks => AiInvoked
       /\ Len(StructuralLinks) >= MinSidebarLinks => ~AiInvoked

\* The page has a navigation element with at least five anchors.
HasSidebarElement ==
    /\ nav_html.dialect \in {"docusaurus", "material", "generic"}
    /\ Len(nav_html.anchors) >= MinSidebarLinks

\* C26 (amended): on the HTML tier the AI fallback is invoked exactly when
\* the page has no navigation element with at least five anchors; the links
\* of a sidebar that was found are returned as they are admitted, also when
\* they are fewer than five, and at least five admitted links exclude the
\* AI fallback.
C26_AiFallbackWithoutSidebar ==
    HtmlTierEnded
    => /\ ~HasSidebarElement <=> AiInvoked
       /\ HasSidebarElement => npc = "done" /\ nav_links = StructuralLinks
       /\ Len(StructuralLinks) >= MinSidebarLinks => ~AiInvoked

\* A sidebar whose admitted links are fewer than five ends the extraction.
C26_WitnessShortSidebar ==
    /\ HtmlTierEnded
    /\ HasSidebarElement
    /\ ~AiInvoked
    /\ Len(StructuralLinks) < MinSidebarLinks
    /\ nav_links = StructuralLinks

\* ---------------------------------------------------------------- C27
\* At most max_iterations passes, and the alternative method clicks no item
\* twice.
C27_Bounded ==
    /\ iteration <= max_iterations
    /\ \A a, b \in 1..Len(final_clicked) : a # b => final_clicked[a] # final_clicked[b]

\* A pass that finds no collapsed item is the last one.
C27_StopsWhenNothingCollapsed ==
    (epc = "while" /\ iteration < max_iterations /\ CollapsedItems(tree) = <<>>)
    => epc' = "final_check"

\* The pass has ended.
PassEnded == epc = "for" /\ item_pos > Len(collapsed_items)

\* C27 as stated: the function terminates, runs at most 5 passes, stops as
\* soon as a pass finds no collapsed node or expands none, and afterwards
\* clicks each still-collapsed node at most once.
C27_TerminatesStoppingWhenNoneExpands ==
    /\ <>(epc = "done")
    /\ []C27_Bounded
    /\ [][C27_StopsWhenNothingCollapsed]_vars
    /\ [][(PassEnded /\ ~verified) => epc' = "final_check"]_vars

\* C27 (amended): the function terminates, runs at most 5 passes, stops as
\* soon as a pass finds no collapsed node or clicks no expander, goes on to
\* the next pass after any click (whether or not the item expanded), and
\* afterwards clicks each still-collapsed node at most once.
C27_TerminatesStoppingWhenNoneClicked ==
    /\ <>(epc = "done")
    /\ []C27_Bounded
    /\ [][C27_StopsWhenNothingCollapsed]_vars
    /\ [][(PassEnded /\ expanded_count = 0) => epc' = "final_check"]_vars
    /\ [][(PassEnded /\ expanded_count > 0) => epc' = "while"]_vars

\* Five passes whose clicks expanded nothing, then the alternative method.
C27_Witness ==
    /\ epc = "done"
    /\ iteration = max_iterations
    /\ ~verified
    /\ expanded_count > 0
    /\ final_clicked # <<>>

\* ---------------------------------------------------------------- C29
\* The content_groups rows the run has added.
RunRows == SubSeq(db.content_groups, Len(db_before.content_groups) + 1, Len(db.content_groups))

\* C29: after a failure result no content group of the run is stored, and a
\* success result means every group of the run is stored.
C29_FailureStoresNothing ==
    /\ run_result = "failure" => RunRows = <<>> /\ db.pages = db_before.pages
    /\ run_result = "success"
       => /\ Len(RunRows) = Len(run_groups)
          /\ \A k \in 1..Len(run_groups) : RunRows[k].name = run_groups[k].name

\* What holds: a failure on the i-th group leaves exactly the groups before
\* it stored, and success means all are stored.
C29_FailureKeepsEarlierGroups ==
    /\ run_result \in {"failure", "success"}
       => /\ Len(RunRows) = run_stored
          /\ \A k \in 1..run_stored : RunRows[k].name = run_groups[k].name
    /\ run_result = "success" => run_stored = Len(run_groups)

\* A run that failed on its second group.
C29_WitnessPartial ==
    /\ run_result = "failure"
    /\ run_stored = 1
    /\ Len(RunRows) = 1

\* ---------------------------------------------------------------- C30
NoTwoLinksWithOneUrl(link_list) ==
    \A a, b \in 1..Len(link_list) : a # b => link_list[a].url # link_list[b].url

\* C30: the current link list never holds two links with the same url, and
\* the list returned is the current list or the empty list.
C30_ReviewKeepsUrlsUnique ==
    /\ NoTwoLinksWithOneUrl(current_links)
    /\ rpc = "returned" => returned_links \in {current_links, <<>>}

\* Paging and removing keep the urls unique, and what is returned is the
\* current list or the empty list.
C30_RemovalKeepsUrlsUnique ==
    /\ [][(NoTwoLinksWithOneUrl(current_links) /\ Len(current_links') <= Len(current_links))
           => NoTwoLinksWithOneUrl(current_links')]_vars
    /\ [](rpc = "returned" => returned_links \in {current_links, <<>>})

\* The second page of a list of more than 20 links is on display.
C30_WitnessPaged ==
    /\ review_page = 1
    /\ Len(current_links) > page_size


====
